---- MODULE Spec2Model ----
(***************************************************************************)
(* fundamentum: trace-context propagation and the ServiceClient request    *)
(* lifecycle.                                                              *)
(*                                                                         *)
(* Conventions.  A Python str is a sequence of one-character strings, so   *)
(* that str.replace, the "in" test and concatenation are computed and not  *)
(* assumed.  An Optional value is None == <<>> or Some(v) == <<v>>.  In a    *)
(* trace id a run of alphanumeric characters is written as one element,    *)
(* the separator "." as an element of its own: "AAA11.BBB22" is            *)
(* <<"AAA11", ".", "BBB22">> and the empty string is <<>>.                 *)
(***************************************************************************)
EXTENDS Integers, Sequences, FiniteSets, TLC

\* ------------------------------------------------------------------ bounds
\* Number of concurrently running call chains (threads or asyncio coroutines
\* scheduled on their own).
NumChains == 2

Chains == 1..NumChains

\* ---------------------------------------------------------------- optionals
None == <<>>
Some(v) == <<v>>
IsNone(o) == o = <<>>
Val(o) == o[1]

\* ------------------------------------------------------------ Python strings
StartsWith(s, p) == Len(p) <= Len(s) /\ SubSeq(s, 1, Len(p)) = p

\* Python: p in s
Contains(s, p) == \E i \in 1..(Len(s) - Len(p) + 1) : SubSeq(s, i, i + Len(p) - 1) = p

\* Python: s.replace(old, new) for a non-empty old: every non-overlapping
\* occurrence, scanning left to right; the inserted text is not rescanned.
RECURSIVE Replace(_, _, _)
Replace(s, old, new) ==
    IF s = <<>> THEN <<>>
    ELSE IF StartsWith(s, old)
         THEN new \o Replace(SubSeq(s, Len(old) + 1, Len(s)), old, new)
         ELSE <<Head(s)>> \o Replace(Tail(s), old, new)

\* --------------------------------------------------------------- trace ids
\* Values a chain may bind: the empty string, a root id, a two-hop id.
TraceIds == { <<>>, <<"AAA11">>, <<"AAA11", ".", "BBB22">> }

\* Values the chain that uses the client binds.
CallerTraceIds == { <<>>, <<"AAA11", ".", "BBB22">> }

\* What trace_id_ctx.get() can return: None (the default) or a bound id.
TraceValues == {None} \cup { Some(t) : t \in TraceIds }

VARIABLES
    trace_id_ctx,   \* chain -> Optional trace id: the ContextVar, one value per context
    lastBound,      \* ghost: chain -> what this chain bound last (None after clear / never set)
    lastRead,       \* chain -> result of its last get_trace_id(), Some(result), or None if never called
    boundAtRead,    \* ghost: chain -> lastBound at the moment of its last get_trace_id()
    endpoints,      \* EndpointRegistry._endpoints: key -> ServiceEndpoint
    settings,       \* the settings object: attribute name -> value
    cache,          \* ServiceRegistry._cache: service name -> base URL
    pc,             \* position of the ServiceClient.request coroutine
    call,           \* arguments of the current request call
    sent,           \* transport calls made by the current request call
    log,            \* log records written by the current request call
    reply,          \* what the transport answered to the current request call, if it has
    result,         \* what the current request call returned or raised
    applied,        \* the last call of append_trace_segment / increment_trace_id: arguments and result
    hops,           \* the ids bound at the hops of one call chain, first hop first
    hist,           \* ghost: the context operations of chain Caller in order, with what each get returned
    mpc,            \* position of the ObservabilityMiddleware.dispatch coroutine
    inbound,        \* the inbound request dispatch is handling
    frame,          \* the locals of the dispatch frame
    steps,          \* what dispatch has done, in order: events logged and (ghost) call_next entered / left
    outcome,        \* what dispatch returned or raised
    max_retries,    \* ServiceClient.max_retries
    regcall,        \* the last call of an EndpointRegistry method: arguments, registry before, outcome
    svccall,        \* the last call of ServiceRegistry.get_base_url: argument, settings at the call, outcome
    resolved,       \* ghost: service name -> the URL get_base_url returned for it first since the last clear_cache
    urlcall,        \* the last call of ServiceClient._build_url: arguments and result
    emitted,        \* the log records that passed ContextFilter.filter, in emit order
    regthreads      \* thread -> its call of register / bulk_register on the shared registry: arguments and position

ctxVars == <<trace_id_ctx, lastBound, lastRead, boundAtRead>>
cliVars == <<endpoints, settings, cache, pc, call, sent, log, reply, result, max_retries>>
segVars == <<applied, hops, hist>>
mwVars == <<mpc, inbound, frame, steps, outcome>>
regVars == <<regcall, svccall, resolved, urlcall, emitted, regthreads>>
vars == <<trace_id_ctx, lastBound, lastRead, boundAtRead,
          endpoints, settings, cache, pc, call, sent, log, reply, result,
          applied, hops, hist, mpc, inbound, frame, steps, outcome,
          max_retries, regcall, svccall, resolved, urlcall, emitted, regthreads>>

\* ---------------------------------------------------- context.py: ContextVar
\* Each call chain runs in a context of its own (a thread's context, or the
\* copy asyncio makes for a separately scheduled coroutine), in which
\* trace_id_ctx starts at its default, None.
\* Faulty variant: one shared module-level variable instead of a ContextVar.
ContextVarSetShared(ctx, c, v) == [d \in DOMAIN ctx |-> v]

\* Faulty variant: a value already bound is not overwritten.
ContextVarSetOnce(ctx, c, v) == IF IsNone(ctx[c]) THEN [ctx EXCEPT ![c] = v] ELSE ctx

\* ContextVar.set(v) executed by chain c: only c's own context changes.
ContextVarSet(ctx, c, v) == [ctx EXCEPT ![c] = v]

\* ContextVar.get() executed by chain c.
ContextVarGet(ctx, c) == ctx[c]

\* get_trace_id() in chain c
get_trace_id(c) ==
    /\ lastRead' = [lastRead EXCEPT ![c] = Some(ContextVarGet(trace_id_ctx, c))]
    /\ boundAtRead' = [boundAtRead EXCEPT ![c] = lastBound[c]]
    /\ UNCHANGED <<trace_id_ctx, lastBound>>
    /\ UNCHANGED cliVars

\* set_trace_id(t) in chain c
set_trace_id(c, t) ==
    /\ trace_id_ctx' = ContextVarSet(trace_id_ctx, c, Some(t))
    /\ lastBound' = [lastBound EXCEPT ![c] = Some(t)]
    /\ UNCHANGED <<lastRead, boundAtRead>>
    /\ UNCHANGED cliVars

\* clear_trace_id() in chain c
clear_trace_id(c) ==
    /\ trace_id_ctx' = ContextVarSet(trace_id_ctx, c, None)
    /\ lastBound' = [lastBound EXCEPT ![c] = None]
    /\ UNCHANGED <<lastRead, boundAtRead>>
    /\ UNCHANGED cliVars

\* ------------------------------------------------- context.py: trace segments
\* What generate_trace_segment can draw: five characters of A-Z0-9 (one of
\* them equal to a segment already in use).
SegmentDraws == {"AAA11", "QQQ77", "ZZZ99"}

\* generate_trace_segment, given the characters secrets.choice drew: the
\* five-character string.
generate_trace_segment(draw) == <<draw>>

\* f"{trace_id}.{segment}"
DotJoin(trace_id, segment) == trace_id \o <<".">> \o segment

\* Faulty variant: only None counts as "no id"; the empty string is joined.
append_trace_segment_none_only(trace_id, segment, draw) ==
    LET seg == IF IsNone(segment) THEN generate_trace_segment(draw) ELSE Val(segment)
    IN IF IsNone(trace_id) THEN seg ELSE DotJoin(Val(trace_id), seg)

\* append_trace_segment(trace_id, segment): a segment is generated when
\* none is given; a falsy trace_id (None or "") yields the segment alone.
append_trace_segment(trace_id, segment, draw) ==
    LET seg == IF IsNone(segment) THEN generate_trace_segment(draw) ELSE Val(segment)
    IN IF IsNone(trace_id) \/ Val(trace_id) = <<>>
       THEN seg
       ELSE DotJoin(Val(trace_id), seg)

\* Faulty variant: the incoming id is dropped and a new trace is started.
increment_trace_id_restart(incoming_trace_id, segment, draw) ==
    append_trace_segment(None, segment, draw)

\* increment_trace_id(incoming_trace_id, segment)
increment_trace_id(incoming_trace_id, segment, draw) ==
    append_trace_segment(incoming_trace_id, segment, draw)

\* Python: s.split("."), the list of the runs between separators.
RECURSIVE Split(_)
Split(s) ==
    IF s = <<>> THEN << <<>> >>
    ELSE IF Head(s) = "."
         THEN << <<>> >> \o Split(Tail(s))
         ELSE LET rest == Split(Tail(s))
              IN << <<Head(s)>> \o Head(rest) >> \o Tail(rest)


\* ------------------------------------------------------ models.py: data model
\* HttpMethod values.
HttpMethod == {"GET", "POST", "PUT", "DELETE", "PATCH", "HEAD", "OPTIONS"}

\* ServiceEndpoint.__post_init__: service and path non-empty, path starts with "/".
ValidEndpoint(e) ==
    /\ e.service # ""
    /\ e.path # <<>>
    /\ StartsWith(e.path, <<"/">>)

\* Exceptions of models.py as values.  ServiceError.__init__ keeps endpoint
\* and status_code; cause is the type of __cause__ ("None" when there is none).
ServiceError(msg, endpoint, status_code, cause) ==
    [type |-> "ServiceError", msg |-> msg, endpoint |-> endpoint,
     status_code |-> status_code, cause |-> cause]

\* ServiceNotFoundError.__init__ fixes status_code=404.
ServiceNotFoundError(msg, endpoint) ==
    [type |-> "ServiceNotFoundError", msg |-> msg, endpoint |-> endpoint,
     status_code |-> Some(404), cause |-> "None"]

\* ServiceTimeoutError.__init__ passes no status code.
ServiceTimeoutError(msg, endpoint, cause) ==
    [type |-> "ServiceTimeoutError", msg |-> msg, endpoint |-> endpoint,
     status_code |-> None, cause |-> cause]

ServiceUnavailableError(msg, endpoint, status_code) ==
    [type |-> "ServiceUnavailableError", msg |-> msg, endpoint |-> endpoint,
     status_code |-> status_code, cause |-> "None"]

\* An exception that is not a ServiceError (KeyError, ValueError, httpx and
\* pydantic exceptions): same shape, no endpoint; status_code is the status of
\* the response an httpx.HTTPStatusError carries.
OtherError(type, msg, status_code) ==
    [type |-> type, msg |-> msg, endpoint |-> None,
     status_code |-> status_code, cause |-> "None"]

\* The class hierarchy the except clauses and callers test against
\* (asyncio.CancelledError derives from BaseException only).
IsSubclass(t, base) ==
    \/ t = base
    \/ base = "Exception" /\ t # "asyncio.CancelledError"
    \/ base = "ServiceError" /\ t \in {"ServiceNotFoundError", "ServiceTimeoutError",
                                       "ServiceUnavailableError"}
    \/ base = "httpx.TimeoutException" /\ t = "httpx.ReadTimeout"

\* ------------------------------------------------- the deployment under study
P_user == <<"/", "u", "/", "{", "i", "}">>
P_list == <<"/", "u">>
P_msg  == <<"/", "m", "/", "{", "i", "}", "/", "{", "j", "}">>

Endpoint(service, path, method, request_model, response_model, timeout) ==
    [service |-> service, path |-> path, method |-> method,
     request_model |-> request_model, response_model |-> response_model,
     timeout |-> timeout]

\* The registry as populated at startup (one endpoint per method, one with a
\* list response model, one whose service has no settings field).
StartupEndpoints ==
    [k \in {"census.get_user", "census.list_users", "census.create_user",
            "hermes.put_msg", "hermes.del_msg", "hermes.patch_msg",
            "census.head_user", "ghost.ping"} |->
        CASE k = "census.get_user" ->
                Endpoint("census", P_user, "GET", "None", "ExampleResponse", None)
          [] k = "census.list_users" ->
                Endpoint("census", P_list, "GET", "None", "list[ExampleResponse]", None)
          [] k = "census.create_user" ->
                Endpoint("census", P_list, "POST", "CreateRequest", "ExampleResponse", None)
          [] k = "hermes.put_msg" ->
                Endpoint("Hermes", P_msg, "PUT", "CreateRequest", "ExampleResponse", Some(2))
          [] k = "hermes.del_msg" ->
                Endpoint("Hermes", P_msg, "DELETE", "None", "ExampleResponse", None)
          [] k = "hermes.patch_msg" ->
                Endpoint("Hermes", P_user, "PATCH", "None", "ExampleResponse", None)
          [] k = "census.head_user" ->
                Endpoint("census", P_user, "HEAD", "None", "ExampleResponse", None)
          [] OTHER ->
                Endpoint("ghost", P_list, "GET", "None", "ExampleResponse", None)]

\* A registry holding one endpoint per HttpMethod value, registered under the
\* method's name.
MethodEndpoints ==
    [m \in HttpMethod |->
        Endpoint("census", P_user, m,
                 IF m \in {"POST", "PUT", "PATCH"} THEN "CreateRequest" ELSE "None",
                 "ExampleResponse", None)]

\* Keys a caller may pass: the registered ones and one that is not.
EndpointKeys == DOMAIN StartupEndpoints \cup {"nope.missing"}

\* The settings object: attributes are <<stem, suffix>>; a service's field is
\* <<lower-cased service name, "_base_url">>.
U_census == <<"c", ":", "1">>
U_hermes == <<"h", ":", "2">>

StartupSettings ==
    [f \in { <<"census", "_base_url">>, <<"hermes", "_base_url">>, <<"service_name", "">> } |->
        CASE f = <<"census", "_base_url">> -> U_census
          [] f = <<"hermes", "_base_url">> -> U_hermes
          [] OTHER -> <<"s", "v", "c">>]

\* --------------------------------------------------- http/registry.py
\* EndpointRegistry.list_keys
list_keys(eps) == DOMAIN eps

\* The registry is the dict _endpoints: a function from its keys to endpoints.
\* d[key] = value on a dict
DictSet(d, key, value) == [k \in DOMAIN d \cup {key} |-> IF k = key THEN value ELSE d[k]]

\* del d[key]
DictDel(d, key) == [k \in DOMAIN d \ {key} |-> d[k]]

\* d.update(other)
DictUpdate(d, other) == [k \in DOMAIN d \cup DOMAIN other |-> IF k \in DOMAIN other THEN other[k] ELSE d[k]]

\* EndpointRegistry.__init__
EmptyRegistry == << >>

\* f"{available or 'none'}" where available = ", ".join(keys): the text
\* 'none' when the joined text is empty (no key, or the empty key alone),
\* else the keys the text names.
AvailableOrNone(keys) ==
    IF keys \subseteq {""} THEN [none |-> TRUE, keys |-> {}] ELSE [none |-> FALSE, keys |-> keys]

\* Faulty variant: the duplicate test is missing and the later endpoint
\* replaces the earlier one.
EndpointRegistry_register_overwriting(eps, key, endpoint) ==
    IF key = ""
    THEN [ok |-> FALSE, exc |-> Some(OtherError("ValueError", "empty_key", None)), endpoints |-> eps]
    ELSE [ok |-> TRUE, exc |-> None, endpoints |-> DictSet(eps, key, endpoint)]

\* EndpointRegistry.register: the registry after the call, or ValueError for
\* an empty key and for a key already registered.
EndpointRegistry_register(eps, key, endpoint) ==
    IF key = ""
    THEN [ok |-> FALSE, exc |-> Some(OtherError("ValueError", "empty_key", None)), endpoints |-> eps]
    ELSE IF key \in DOMAIN eps
    THEN [ok |-> FALSE, exc |-> Some(OtherError("ValueError", "already_registered", None)), endpoints |-> eps]
    ELSE [ok |-> TRUE, exc |-> None, endpoints |-> DictSet(eps, key, endpoint)]

\* EndpointRegistry.get: the endpoint, or KeyError naming the known keys.
EndpointRegistry_get(eps, key) ==
    IF key \notin DOMAIN eps
    THEN [ok |-> FALSE, exc |-> OtherError("KeyError", "endpoint_not_found", None),
          available |-> AvailableOrNone(list_keys(eps))]
    ELSE [ok |-> TRUE, endpoint |-> eps[key]]

\* EndpointRegistry.has
has(eps, key) == key \in DOMAIN eps

\* Faulty variant: removing a key empties the registry.
EndpointRegistry_unregister_all(eps, key) ==
    IF key \notin DOMAIN eps
    THEN [ok |-> FALSE, exc |-> Some(OtherError("KeyError", "endpoint_not_found", None)), endpoints |-> eps]
    ELSE [ok |-> TRUE, exc |-> None, endpoints |-> EmptyRegistry]

\* EndpointRegistry.unregister: the registry without the key, or KeyError.
EndpointRegistry_unregister(eps, key) ==
    IF key \notin DOMAIN eps
    THEN [ok |-> FALSE, exc |-> Some(OtherError("KeyError", "endpoint_not_found", None)), endpoints |-> eps]
    ELSE [ok |-> TRUE, exc |-> None, endpoints |-> DictDel(eps, key)]

\* EndpointRegistry.clear
EndpointRegistry_clear(eps) == [ok |-> TRUE, exc |-> None, endpoints |-> EmptyRegistry]

\* Faulty variant: the keys of the batch that are free are registered before
\* the collision is reported.
EndpointRegistry_bulk_register_partial(eps, batch) ==
    LET conflicts == { key \in DOMAIN batch : key \in DOMAIN eps }
        free == [k \in DOMAIN batch \ conflicts |-> batch[k]]
    IN IF conflicts # {}
       THEN [ok |-> FALSE, exc |-> Some(OtherError("ValueError", "already_registered", None)),
             conflicts |-> conflicts, endpoints |-> DictUpdate(eps, free)]
       ELSE [ok |-> TRUE, exc |-> None, conflicts |-> {}, endpoints |-> DictUpdate(eps, batch)]

\* EndpointRegistry.bulk_register: every key of the batch is tested against
\* the registry before any is stored.
EndpointRegistry_bulk_register(eps, batch) ==
    LET conflicts == { key \in DOMAIN batch : key \in DOMAIN eps }
    IN IF conflicts # {}
       THEN [ok |-> FALSE, exc |-> Some(OtherError("ValueError", "already_registered", None)),
             conflicts |-> conflicts, endpoints |-> eps]
       ELSE [ok |-> TRUE, exc |-> None, conflicts |-> {}, endpoints |-> DictUpdate(eps, batch)]

\* --------------------------------------------------- settings/registry.py
\* str.lower on the service names in use.
Lower(s) == CASE s = "CENSUS" -> "census" [] s = "Hermes" -> "hermes" [] OTHER -> s

\* ServiceRegistry.list_services
list_services(st) == { f[1] : f \in { g \in DOMAIN st : g[2] = "_base_url" } }

\* Faulty variant: no hasattr test, an unknown service yields an empty base URL.
get_base_url_unchecked(ch, st, service_name) ==
    IF service_name \in DOMAIN ch
    THEN [ok |-> TRUE, url |-> ch[service_name], cache |-> ch]
    ELSE [ok |-> TRUE, url |-> <<>>, cache |-> ch]

\* Faulty variant: the cache is never consulted, every call reads the settings.
get_base_url_uncached(ch, st, service_name) ==
    LET field_name == <<Lower(service_name), "_base_url">> IN
    IF field_name \notin DOMAIN st
    THEN [ok |-> FALSE, url |-> <<>>, cache |-> ch,
          exc |-> OtherError("ValueError", "service_not_configured", None),
          available |-> AvailableOrNone(list_services(st))]
    ELSE [ok |-> TRUE, url |-> st[field_name],
          cache |-> [s \in DOMAIN ch \cup {service_name} |->
                       IF s = service_name THEN st[field_name] ELSE ch[s]]]

\* Faulty variant: a service without a settings field is cached with an empty
\* URL before the error is raised.
get_base_url_caching_failure(ch, st, service_name) ==
    IF service_name \in DOMAIN ch
    THEN [ok |-> TRUE, url |-> ch[service_name], cache |-> ch]
    ELSE LET field_name == <<Lower(service_name), "_base_url">> IN
         IF field_name \notin DOMAIN st
         THEN [ok |-> FALSE, url |-> <<>>,
               cache |-> [s \in DOMAIN ch \cup {service_name} |->
                            IF s = service_name THEN <<>> ELSE ch[s]],
               exc |-> OtherError("ValueError", "service_not_configured", None),
               available |-> AvailableOrNone(list_services(st))]
         ELSE [ok |-> TRUE, url |-> st[field_name],
               cache |-> [s \in DOMAIN ch \cup {service_name} |->
                            IF s = service_name THEN st[field_name] ELSE ch[s]]]

\* ServiceRegistry.get_base_url: cached value, else the settings field (cached
\* under the name as given), else ValueError naming the services that have a
\* field.
get_base_url(ch, st, service_name) ==
    IF service_name \in DOMAIN ch
    THEN [ok |-> TRUE, url |-> ch[service_name], cache |-> ch]
    ELSE LET field_name == <<Lower(service_name), "_base_url">> IN
         IF field_name \notin DOMAIN st
         THEN [ok |-> FALSE, url |-> <<>>, cache |-> ch,
               exc |-> OtherError("ValueError", "service_not_configured", None),
               available |-> AvailableOrNone(list_services(st))]
         ELSE [ok |-> TRUE, url |-> st[field_name],
               cache |-> [s \in DOMAIN ch \cup {service_name} |->
                            IF s = service_name THEN st[field_name] ELSE ch[s]]]

\* Faulty variant: clear_cache leaves the cache as it is.
clear_cache_keeping(ch) == ch

\* ServiceRegistry.clear_cache
clear_cache(ch) == << >>


\* --------------------------------------------------- log records and events
\* One record of the logging sink: level, message, and the fields of "extra"
\* the client sets (absent ones are None).
LogRecord(level, msg, detail, endpoint_key, url, status_code) ==
    [level |-> level, msg |-> msg, detail |-> detail,
     endpoint_key |-> endpoint_key, url |-> url, status_code |-> status_code]

\* observability/helpers.py is not part of the sources; its two entry points
\* are taken from the specification: each writes one structured event.
log_http_request(endpoint_name, url, method) ==
    LogRecord("INFO", "http.client.request", Some(method), Some(endpoint_name), Some(url), None)

log_http_response(endpoint_name, url, status_code, method) ==
    LogRecord("INFO", "http.client.response", Some(method), Some(endpoint_name),
              Some(url), Some(status_code))

\* --------------------------------------------------- http/client.py
\* ServiceClient.__init__: timeout default.
DefaultTimeout == 10

\* ServiceClient.__init__: max_retries default, and values a client is built with.
DefaultMaxRetries == 3
MaxRetriesChoices == {0, 1, DefaultMaxRetries}

\* f"{{{key}}}"
Placeholder(key) == <<"{">> \o key \o <<"}">>

\* The loop of _build_url over path_params.items(), from item i on:
\* the path after substitution and the warnings written on the way.
RECURSIVE ReplacePathParams(_, _, _)
ReplacePathParams(path, items, i) ==
    IF i > Len(items) THEN [path |-> path, warnings |-> <<>>]
    ELSE LET key == items[i][1]
             value == items[i][2]
             warn == IF ~Contains(path, Placeholder(key))
                     THEN << LogRecord("WARNING", "path_parameter_not_found",
                                       Some(key), None, None, None) >>
                     ELSE <<>>
             rest == ReplacePathParams(Replace(path, Placeholder(key), value), items, i + 1)
         IN [path |-> rest.path, warnings |-> warn \o rest.warnings]

\* Faulty variant: a parameter without placeholder, or brace text left in the
\* path, is an error instead of a warning.
build_url_strict(ch, st, endpoint, path_params) ==
    LET base == get_base_url(ch, st, endpoint.service) IN
    IF ~base.ok
    THEN [ok |-> FALSE, exc |-> base.exc, url |-> <<>>, warnings |-> <<>>, cache |-> base.cache]
    ELSE LET sub == IF ~IsNone(path_params) /\ Val(path_params) # <<>>
                    THEN ReplacePathParams(endpoint.path, Val(path_params), 1)
                    ELSE [path |-> endpoint.path, warnings |-> <<>>]
         IN IF sub.warnings # <<>> \/ (Contains(sub.path, <<"{">>) /\ Contains(sub.path, <<"}">>))
            THEN [ok |-> FALSE, exc |-> OtherError("ValueError", "bad_path_params", None),
                  url |-> <<>>, warnings |-> <<>>, cache |-> base.cache]
            ELSE [ok |-> TRUE, url |-> base.url \o sub.path, warnings |-> <<>>, cache |-> base.cache]

\* ServiceClient._build_url: base URL + substituted path; warnings for
\* parameters without placeholder and for brace text left in the path.
\* Raises what get_base_url raises.
build_url(ch, st, endpoint, path_params) ==
    LET base == get_base_url(ch, st, endpoint.service) IN
    IF ~base.ok
    THEN [ok |-> FALSE, exc |-> base.exc, url |-> <<>>, warnings |-> <<>>, cache |-> base.cache]
    ELSE LET sub == IF ~IsNone(path_params) /\ Val(path_params) # <<>>
                    THEN ReplacePathParams(endpoint.path, Val(path_params), 1)
                    ELSE [path |-> endpoint.path, warnings |-> <<>>]
             unreplaced == IF Contains(sub.path, <<"{">>) /\ Contains(sub.path, <<"}">>)
                           THEN << LogRecord("WARNING", "unreplaced_parameters",
                                             Some(sub.path), None, None, None) >>
                           ELSE <<>>
         IN [ok |-> TRUE, url |-> base.url \o sub.path,
             warnings |-> sub.warnings \o unreplaced, cache |-> base.cache]

\* Faulty variant: the sender appends a segment of its own before sending.
build_headers_incrementing(ctx, c) ==
    LET trace_id == ContextVarGet(ctx, c)
        names == {"Content-Type", "Accept"} \cup
                 (IF ~IsNone(trace_id) /\ Val(trace_id) # <<>> THEN {"X-Trace-ID"} ELSE {})
    IN [h \in names |-> IF h = "X-Trace-ID" THEN Append(Val(trace_id), "SENT0")
                                            ELSE <<"application/json">>]

\* ServiceClient._build_headers in chain c: the defaults, and X-Trace-ID when
\* the bound trace id is truthy (neither None nor the empty string).
build_headers(ctx, c) ==
    LET trace_id == ContextVarGet(ctx, c)
        names == {"Content-Type", "Accept"} \cup
                 (IF ~IsNone(trace_id) /\ Val(trace_id) # <<>> THEN {"X-Trace-ID"} ELSE {})
    IN [h \in names |-> IF h = "X-Trace-ID" THEN Val(trace_id) ELSE <<"application/json">>]

\* body.model_dump()
model_dump(body) == <<"json", body>>

\* Methods request() has a dispatch branch for (lines 199-214).
DispatchMethods == {"GET", "POST", "PUT", "DELETE", "PATCH"}

\* Faulty variant: every branch calls client.get.
TransportCallAlwaysGet(method, url, json_body, query_params, headers, timeout) ==
    [method |-> "GET", url |-> url, json |-> None,
     params |-> query_params, headers |-> headers, timeout |-> timeout]

\* The httpx call of each branch: get and delete send no json body.
TransportCall(method, url, json_body, query_params, headers, timeout) ==
    [method |-> method, url |-> url,
     json |-> IF method \in {"POST", "PUT", "PATCH"} THEN json_body ELSE None,
     params |-> query_params, headers |-> headers, timeout |-> timeout]

\* Faulty variant: the request event is logged twice.
LogOutgoingRequestTwice(endpoint_key, url, method) ==
    << log_http_request(endpoint_key, url, method),
       log_http_request(endpoint_key, url, method) >>

\* Faulty variant: the request event is not logged.
LogOutgoingRequestOmitted(endpoint_key, url, method) == <<>>

\* The call site of log_http_request (lines 185-192).
LogOutgoingRequest(endpoint_key, url, method) == << log_http_request(endpoint_key, url, method) >>


\* isinstance(body, request_model) for the model classes in use.
IsInstance(body, model) == body = model

\* Faulty variant: the body's type is never tested.
BodyMismatchIgnored(body, endpoint) == FALSE

\* Lines 177-183: a body was given, the endpoint declares a request model and
\* the body is not an instance of it.
BodyMismatch(body, endpoint) ==
    /\ ~IsNone(body)
    /\ endpoint.request_model # "None"
    /\ ~IsInstance(Val(body), endpoint.request_model)

\* Line 172: the endpoint's timeout, else the client's.
EffectiveTimeout(endpoint) ==
    IF ~IsNone(endpoint.timeout) THEN Val(endpoint.timeout) ELSE DefaultTimeout

\* httpx.Response.raise_for_status raises unless the status is 2xx.
IsSuccess(status_code) == 200 <= status_code /\ status_code <= 299

\* What the transport can answer: a response (status code, content; an error
\* response is empty or carries an error document), a timeout, or another
\* transport failure.
Statuses == {200, 204, 302, 404, 422, 500, 503}
Contents == {"empty", "obj_ok", "obj_bad", "list_ok", "not_json"}
TransportOutcomes ==
    { r \in [kind : {"response"}, status_code : Statuses, content : Contents] :
        IsSuccess(r.status_code) \/ r.content \in {"empty", "obj_bad"} }
    \cup { [kind |-> "exception", type |-> t] : t \in {"httpx.ReadTimeout", "httpx.ConnectError"} }

\* Only a BaseModel subclass has model_validate; list[Model] is a generic
\* alias of list and has no such attribute.
HasModelValidate(model) == model = "ExampleResponse"

\* ExampleResponse.model_validate accepts an object with its fields.
ModelAccepts(model, content) == model = "ExampleResponse" /\ content = "obj_ok"

\* The response content is what the endpoint's response model describes.
MatchesModel(model, content) ==
    \/ model = "ExampleResponse" /\ content = "obj_ok"
    \/ model = "list[ExampleResponse]" /\ content = "list_ok"

\* Faulty variant: the response event is logged just before each return.
HandleResponseLoggingAtReturn(endpoint, endpoint_key, url, response) ==
    IF response.status_code = 404
    THEN [raised |-> TRUE,
          exc |-> ServiceNotFoundError("resource_not_found", Some(endpoint_key)),
          log |-> << LogRecord("WARNING", "resource_not_found", None,
                               Some(endpoint_key), Some(url), Some(404)) >>]
    ELSE IF response.status_code >= 500
    THEN [raised |-> TRUE,
          exc |-> ServiceUnavailableError("service_unavailable", Some(endpoint_key),
                                          Some(response.status_code)),
          log |-> << LogRecord("ERROR", "service_unavailable", None,
                               Some(endpoint_key), Some(url), Some(response.status_code)) >>]
    ELSE IF ~IsSuccess(response.status_code)
    THEN [raised |-> TRUE,
          exc |-> OtherError("httpx.HTTPStatusError", "raise_for_status",
                             Some(response.status_code)),
          log |-> <<>>]
    ELSE LET ev == << log_http_response(endpoint_key, url, response.status_code,
                                        endpoint.method) >>
         IN IF response.content = "empty"
            THEN [raised |-> FALSE, value |-> None, log |-> ev]
            ELSE IF response.content = "not_json"
            THEN [raised |-> TRUE,
                  exc |-> OtherError("json.JSONDecodeError", "response.json", None),
                  log |-> <<>>]
            ELSE IF ~HasModelValidate(endpoint.response_model)
            THEN [raised |-> TRUE,
                  exc |-> OtherError("AttributeError", "model_validate", None),
                  log |-> <<>>]
            ELSE IF ModelAccepts(endpoint.response_model, response.content)
            THEN [raised |-> FALSE,
                  value |-> Some(<<endpoint.response_model, response.content>>),
                  log |-> ev]
            ELSE [raised |-> TRUE,
                  exc |-> OtherError("pydantic.ValidationError", "model_validate", None),
                  log |-> << LogRecord("ERROR", "response_validation_error", None,
                                       Some(endpoint_key), Some(url), None) >>]

\* Lines 218-285: what the try body does with the response it received:
\* raises (raised, exc) or returns (value), and the records it logs.
HandleResponse(endpoint, endpoint_key, url, response) ==
    IF response.status_code = 404
    THEN [raised |-> TRUE,
          exc |-> ServiceNotFoundError("resource_not_found", Some(endpoint_key)),
          log |-> << LogRecord("WARNING", "resource_not_found", None,
                               Some(endpoint_key), Some(url), Some(404)) >>]
    ELSE IF response.status_code >= 500
    THEN [raised |-> TRUE,
          exc |-> ServiceUnavailableError("service_unavailable", Some(endpoint_key),
                                          Some(response.status_code)),
          log |-> << LogRecord("ERROR", "service_unavailable", None,
                               Some(endpoint_key), Some(url), Some(response.status_code)) >>]
    ELSE IF ~IsSuccess(response.status_code)
    THEN [raised |-> TRUE,
          exc |-> OtherError("httpx.HTTPStatusError", "raise_for_status",
                             Some(response.status_code)),
          log |-> <<>>]
    ELSE LET ev == << log_http_response(endpoint_key, url, response.status_code,
                                        endpoint.method) >>
         IN IF response.content = "empty"
            THEN [raised |-> FALSE, value |-> None, log |-> ev]
            ELSE IF response.content = "not_json"
            THEN [raised |-> TRUE,
                  exc |-> OtherError("json.JSONDecodeError", "response.json", None),
                  log |-> ev]
            ELSE IF ~HasModelValidate(endpoint.response_model)
            THEN [raised |-> TRUE,
                  exc |-> OtherError("AttributeError", "model_validate", None),
                  log |-> ev]
            ELSE IF ModelAccepts(endpoint.response_model, response.content)
            THEN [raised |-> FALSE,
                  value |-> Some(<<endpoint.response_model, response.content>>),
                  log |-> ev]
            ELSE [raised |-> TRUE,
                  exc |-> OtherError("pydantic.ValidationError", "model_validate", None),
                  log |-> ev \o << LogRecord("ERROR", "response_validation_error", None,
                                             Some(endpoint_key), Some(url), None) >>]

\* Faulty variant: no clause for httpx.TimeoutException.
ExceptHandlersNoTimeoutClause(exc, endpoint_key, url) ==
    [exc |-> ServiceError("request_failed", Some(endpoint_key), None, exc.type),
     log |-> << LogRecord("ERROR", "request_error", Some(exc.type),
                          Some(endpoint_key), Some(url), None) >>]

\* Faulty variant: no clause for httpx.HTTPStatusError.
ExceptHandlersNoStatusClause(exc, endpoint_key, url) ==
    IF IsSubclass(exc.type, "httpx.TimeoutException")
    THEN [exc |-> ServiceTimeoutError("request_timeout", Some(endpoint_key), exc.type),
          log |-> << LogRecord("ERROR", "request_timeout", None,
                               Some(endpoint_key), Some(url), None) >>]
    ELSE [exc |-> ServiceError("request_failed", Some(endpoint_key), None, exc.type),
          log |-> << LogRecord("ERROR", "request_error", Some(exc.type),
                               Some(endpoint_key), Some(url), None) >>]

\* Faulty variant: the last clause raises ServiceError without "from e".
ExceptHandlersNoCause(exc, endpoint_key, url) ==
    IF IsSubclass(exc.type, "httpx.TimeoutException")
    THEN [exc |-> ServiceTimeoutError("request_timeout", Some(endpoint_key), exc.type),
          log |-> << LogRecord("ERROR", "request_timeout", None,
                               Some(endpoint_key), Some(url), None) >>]
    ELSE IF IsSubclass(exc.type, "httpx.HTTPStatusError")
    THEN [exc |-> ServiceError("http_error", Some(endpoint_key), exc.status_code, exc.type),
          log |-> << LogRecord("ERROR", "http_error", None,
                               Some(endpoint_key), Some(url), exc.status_code) >>]
    ELSE [exc |-> ServiceError("request_failed", Some(endpoint_key), None, "None"),
          log |-> << LogRecord("ERROR", "request_error", Some(exc.type),
                               Some(endpoint_key), Some(url), None) >>]

\* Lines 287-331: the except clauses, tried in order, for an exception that
\* leaves the try body: the exception raised to the caller and the record logged.
ExceptHandlers(exc, endpoint_key, url) ==
    IF IsSubclass(exc.type, "httpx.TimeoutException")
    THEN [exc |-> ServiceTimeoutError("request_timeout", Some(endpoint_key), exc.type),
          log |-> << LogRecord("ERROR", "request_timeout", None,
                               Some(endpoint_key), Some(url), None) >>]
    ELSE IF IsSubclass(exc.type, "httpx.HTTPStatusError")
    THEN [exc |-> ServiceError("http_error", Some(endpoint_key), exc.status_code, exc.type),
          log |-> << LogRecord("ERROR", "http_error", None,
                               Some(endpoint_key), Some(url), exc.status_code) >>]
    ELSE [exc |-> ServiceError("request_failed", Some(endpoint_key), None, exc.type),
          log |-> << LogRecord("ERROR", "request_error", Some(exc.type),
                               Some(endpoint_key), Some(url), None) >>]

\* The try statement of request() once the transport call has ended with
\* outcome o: the try body's result, passed through the except clauses.
AfterTransport(endpoint, endpoint_key, url, o) ==
    LET body == IF o.kind = "response"
                THEN HandleResponse(endpoint, endpoint_key, url, o)
                ELSE [raised |-> TRUE, exc |-> OtherError(o.type, "transport", None),
                      log |-> <<>>]
    IN IF body.raised
       THEN LET h == ExceptHandlers(body.exc, endpoint_key, url)
            IN [raised |-> TRUE, exc |-> h.exc, log |-> body.log \o h.log]
       ELSE body


\* ------------------------------------------------ the request coroutine
NoResult == [kind |-> "none"]
Raised(exc) == [kind |-> "raise", exc |-> exc]
Returned(value) == [kind |-> "return", value |-> value]

\* The locals of a request() frame that survive the await.
NoLocals == [endpoint |-> None, url |-> None, timeout |-> None]

\* logged_at_dispatch is a ghost: how many records the call had written when
\* it made its transport call (None while it has made none).
NoCall == [endpoint_key |-> "", path_params |-> None,
           query_params |-> None, body |-> None, locals |-> NoLocals,
           logged_at_dispatch |-> None]

\* Lines 164-216: request() from its first line to the transport call.
\* Yields the frame's position, what it raised (if it did), the transport
\* call made, the records logged and the service registry's cache.
RequestStart(eps, st, ch, ctx, c, args) ==
    LET got == EndpointRegistry_get(eps, args.endpoint_key) IN
    IF ~got.ok
    THEN [pc |-> "raised", result |-> Raised(got.exc), sent |-> <<>>, log |-> <<>>,
          cache |-> ch, locals |-> NoLocals, logged_at_dispatch |-> None]
    ELSE
    LET endpoint == got.endpoint
        built == build_url(ch, st, endpoint, args.path_params)
    IN
    IF ~built.ok
    THEN [pc |-> "raised", result |-> Raised(built.exc), sent |-> <<>>, log |-> <<>>,
          cache |-> built.cache, locals |-> [NoLocals EXCEPT !.endpoint = Some(endpoint)],
          logged_at_dispatch |-> None]
    ELSE
    LET url == built.url
        headers == build_headers(ctx, c)
        timeout == EffectiveTimeout(endpoint)
        json_body == IF ~IsNone(args.body) THEN Some(model_dump(Val(args.body))) ELSE None
        locals == [endpoint |-> Some(endpoint), url |-> Some(url), timeout |-> Some(timeout)]
    IN
    IF BodyMismatch(args.body, endpoint)
    THEN [pc |-> "raised",
          result |-> Raised(OtherError("ValueError", "request_body_type", None)),
          sent |-> <<>>, log |-> built.warnings, cache |-> built.cache, locals |-> locals,
          logged_at_dispatch |-> None]
    ELSE
    LET ev == LogOutgoingRequest(args.endpoint_key, url, endpoint.method) IN
    IF endpoint.method \notin DispatchMethods
    THEN LET h == ExceptHandlers(OtherError("ValueError", "unsupported_method", None),
                                 args.endpoint_key, url)
         IN [pc |-> "raised", result |-> Raised(h.exc), sent |-> <<>>,
             log |-> built.warnings \o ev \o h.log, cache |-> built.cache, locals |-> locals,
             logged_at_dispatch |-> None]
    ELSE [pc |-> "awaiting", result |-> NoResult,
          sent |-> << TransportCall(endpoint.method, url, json_body, args.query_params,
                                    headers, timeout) >>,
          log |-> built.warnings \o ev, cache |-> built.cache, locals |-> locals,
          logged_at_dispatch |-> Some(Len(built.warnings \o ev))]

\* Faulty variant: a call whose transport call raised is sent again, up to
\* max_retries times.
RequestFinishRetrying(locals, endpoint_key, o) ==
    LET r == AfterTransport(Val(locals.endpoint), endpoint_key, Val(locals.url), o)
    IN IF o.kind = "exception" /\ Len(sent) <= max_retries
       THEN [pc |-> "awaiting", result |-> NoResult, log |-> <<>>, sent |-> << sent[1] >>]
       ELSE IF r.raised
       THEN [pc |-> "raised", result |-> Raised(r.exc), log |-> r.log, sent |-> <<>>]
       ELSE [pc |-> "returned", result |-> Returned(r.value), log |-> r.log, sent |-> <<>>]

\* Lines 218-331: request() from the end of the transport call to its exit:
\* where it ends, the records it logs and the transport calls it makes (none).
RequestFinish(locals, endpoint_key, o) ==
    LET r == AfterTransport(Val(locals.endpoint), endpoint_key, Val(locals.url), o)
    IN IF r.raised
       THEN [pc |-> "raised", result |-> Raised(r.exc), log |-> r.log, sent |-> <<>>]
       ELSE [pc |-> "returned", result |-> Returned(r.value), log |-> r.log, sent |-> <<>>]

\* ---------------------------------------------------------------- inputs
K_i == <<"i">>
K_j == <<"j">>
K_k == <<"k">>
V_7 == <<"7">>
V_9 == <<"9">>
V_brace_j == <<"{", "j", "}">>

\* path_params: None, the empty dict, and dicts in insertion order.
PathParamChoices ==
    { None, Some(<<>>),
      Some(<< <<K_i, V_7>> >>),
      Some(<< <<K_k, V_7>> >>),
      Some(<< <<K_i, V_7>>, <<K_j, V_9>> >>),
      Some(<< <<K_i, V_brace_j>>, <<K_j, V_9>> >>) }

QueryParamChoices == { None, Some("page=1") }

\* body: None or an instance of one of two BaseModel classes.
BodyChoices == { None, Some("CreateRequest"), Some("OtherRequest") }

\* get/delete take no body, post/put require one, request takes either.
EntryAccepts(entry, body) ==
    CASE entry \in {"get", "delete"} -> IsNone(body)
      [] entry \in {"post", "put"} -> ~IsNone(body)
      [] OTHER -> TRUE

\* The chain that calls the client.
Caller == 1

\* ---------------------------------------------------------------- actions
\* Faulty variant: a call made while no trace id is bound binds one.
RequestBindingTraceId(entry, key, pp, qp, body) ==
    /\ pc = "idle"
    /\ EntryAccepts(entry, body)
    /\ LET args == [endpoint_key |-> key, path_params |-> pp,
                    query_params |-> qp, body |-> body, locals |-> NoLocals,
                    logged_at_dispatch |-> None]
           r == RequestStart(endpoints, settings, cache, trace_id_ctx, Caller, args)
       IN /\ pc' = r.pc
          /\ result' = r.result
          /\ sent' = r.sent
          /\ log' = r.log
          /\ cache' = r.cache
          /\ call' = [args EXCEPT !.locals = r.locals,
                                   !.logged_at_dispatch = r.logged_at_dispatch]
    /\ reply' = None
    /\ trace_id_ctx' = IF IsNone(ContextVarGet(trace_id_ctx, Caller))
                       THEN ContextVarSet(trace_id_ctx, Caller, Some(<<"AAA11", ".", "BBB22">>))
                       ELSE trace_id_ctx
    /\ UNCHANGED <<endpoints, settings, max_retries>>
    /\ UNCHANGED <<lastBound, lastRead, boundAtRead>>
    /\ UNCHANGED segVars
    /\ UNCHANGED mwVars
    /\ UNCHANGED regVars

\* client.request / get / post / put / delete called in chain Caller; runs
\* until it raises or suspends in the transport call.
Request(entry, key, pp, qp, body) ==
    /\ pc = "idle"
    /\ EntryAccepts(entry, body)
    /\ LET args == [endpoint_key |-> key, path_params |-> pp,
                    query_params |-> qp, body |-> body, locals |-> NoLocals,
                    logged_at_dispatch |-> None]
           r == RequestStart(endpoints, settings, cache, trace_id_ctx, Caller, args)
       IN /\ pc' = r.pc
          /\ result' = r.result
          /\ sent' = r.sent
          /\ log' = r.log
          /\ cache' = r.cache
          /\ call' = [args EXCEPT !.locals = r.locals,
                                   !.logged_at_dispatch = r.logged_at_dispatch]
    /\ reply' = None
    /\ UNCHANGED <<endpoints, settings, max_retries>>
    /\ UNCHANGED ctxVars
    /\ UNCHANGED segVars
    /\ UNCHANGED mwVars
    /\ UNCHANGED regVars

\* The transport call ends with outcome o and request() runs to its exit.
TransportReply(o) ==
    /\ pc = "awaiting"
    /\ LET r == RequestFinish(call.locals, call.endpoint_key, o)
       IN /\ pc' = r.pc
          /\ result' = r.result
          /\ log' = log \o r.log
          /\ sent' = sent \o r.sent
    /\ reply' = Some(o)
    /\ UNCHANGED <<endpoints, settings, cache, call, max_retries>>
    /\ UNCHANGED ctxVars
    /\ UNCHANGED segVars
    /\ UNCHANGED mwVars
    /\ UNCHANGED regVars

\* The caller has taken the result or the exception; the frame is gone.
CallerResumes ==
    /\ pc \in {"returned", "raised"}
    /\ pc' = "idle"
    /\ call' = NoCall
    /\ sent' = <<>>
    /\ log' = <<>>
    /\ reply' = None
    /\ result' = NoResult
    /\ UNCHANGED <<endpoints, settings, cache, max_retries>>
    /\ UNCHANGED ctxVars
    /\ UNCHANGED segVars
    /\ UNCHANGED mwVars
    /\ UNCHANGED regVars

\* ------------------------------------------- actions on the trace functions
NoApplication == [fn |-> "none", trace_id |-> None, segment |-> None, result |-> <<>>]

\* trace_id arguments: None, the empty string, well-formed ids, and strings
\* with an empty run.
IdArgs ==
    { None, Some(<<>>), Some(<<"AAA11">>), Some(<<"AAA11", ".", "BBB22">>),
      Some(<<"TRACE", ".", "AAA11">>), Some(<<"UICALL", ".", "START">>),
      Some(<<"AAA11", ".">>), Some(<<".">>) }

\* segment arguments: None (generate one), explicit segments, the empty
\* string, and a string that holds a separator.
SegmentArgs ==
    { None, Some(<<"BBB22">>), Some(<<"START">>), Some(<<"SERVICE">>),
      Some(<<"EDGE">>), Some(<<>>), Some(<<"SVC", ".", "B">>) }

\* A call append_trace_segment(trace_id, segment).
Call_append_trace_segment(trace_id, segment, draw) ==
    /\ applied' = [fn |-> "append_trace_segment", trace_id |-> trace_id,
                   segment |-> segment,
                   result |-> append_trace_segment(trace_id, segment, draw)]
    /\ UNCHANGED <<hops, hist>>
    /\ UNCHANGED ctxVars
    /\ UNCHANGED cliVars
    /\ UNCHANGED mwVars
    /\ UNCHANGED regVars

\* A call increment_trace_id(incoming_trace_id, segment).
Call_increment_trace_id(incoming_trace_id, segment, draw) ==
    /\ applied' = [fn |-> "increment_trace_id", trace_id |-> incoming_trace_id,
                   segment |-> segment,
                   result |-> increment_trace_id(incoming_trace_id, segment, draw)]
    /\ UNCHANGED <<hops, hist>>
    /\ UNCHANGED ctxVars
    /\ UNCHANGED cliVars
    /\ UNCHANGED mwVars
    /\ UNCHANGED regVars

\* Longest chain of hops followed.
MaxHops == 4

\* request.headers.get("X-Trace-ID") at the receiving hop, for the headers
\* the sending hop built while trace id t was bound.
ForwardedTraceId(t) ==
    LET headers == build_headers([c \in {Caller} |-> Some(t)], Caller)
    IN IF "X-Trace-ID" \in DOMAIN headers THEN Some(headers["X-Trace-ID"]) ELSE None

\* The next service of the chain receives the request: the first one without
\* X-Trace-ID, a later one with the header its predecessor sent; it binds
\* increment_trace_id(incoming).
Hop(draw) ==
    /\ Len(hops) < MaxHops
    /\ LET incoming == IF hops = <<>> THEN None ELSE ForwardedTraceId(hops[Len(hops)])
       IN hops' = Append(hops, increment_trace_id(incoming, None, draw))
    /\ UNCHANGED <<applied, hist>>
    /\ UNCHANGED ctxVars
    /\ UNCHANGED cliVars
    /\ UNCHANGED mwVars
    /\ UNCHANGED regVars

\* Longest recorded sequence of context operations.
MaxOps == 3

\* Chain Caller calls get_trace_id / set_trace_id / clear_trace_id and the
\* call is recorded.
Recorded_get ==
    /\ Len(hist) < MaxOps
    /\ get_trace_id(Caller)
    /\ hist' = Append(hist, [op |-> "get", value |-> Val(lastRead'[Caller])])
    /\ UNCHANGED <<applied, hops>>
    /\ UNCHANGED mwVars
    /\ UNCHANGED regVars

Recorded_set(t) ==
    /\ Len(hist) < MaxOps
    /\ set_trace_id(Caller, t)
    /\ hist' = Append(hist, [op |-> "set", value |-> Some(t)])
    /\ UNCHANGED <<applied, hops>>
    /\ UNCHANGED mwVars
    /\ UNCHANGED regVars

Recorded_clear ==
    /\ Len(hist) < MaxOps
    /\ clear_trace_id(Caller)
    /\ hist' = Append(hist, [op |-> "clear", value |-> None])
    /\ UNCHANGED <<applied, hops>>
    /\ UNCHANGED mwVars
    /\ UNCHANGED regVars

\* ------------------------------------------ observability/middleware.py
\* One entry of steps: a structured event written to the logger (ghost is
\* None), or a ghost entry marking that dispatch was entered, bound the trace
\* id, entered or left call_next (ghost holds what call_next returned or
\* raised), or attached the response header.
Step(level, name, url_name, peer_service, method, path, status_code, duration_ms, error, error_type, ghost) ==
    [level |-> level, name |-> name, url_name |-> url_name, peer_service |-> peer_service,
     method |-> method, path |-> path, status_code |-> status_code,
     duration_ms |-> duration_ms, error |-> error, error_type |-> error_type,
     ghost |-> ghost]

GhostStep(name, what) ==
    Step("-", name, None, None, None, None, None, None, None, None, Some(what))

\* observability/helpers.py is not part of the sources; the three server-side
\* entry points are taken from the specification: each writes one event.
log_service_request(url_name, peer_service, path, method) ==
    Step("INFO", "http.server.request", Some(url_name), Some(peer_service), Some(method),
         Some(path), None, None, None, None, None)

log_service_response(url_name, peer_service, method, status_code, duration_ms) ==
    Step(IF status_code >= 400 THEN "ERROR" ELSE "INFO", "http.server.response",
         Some(url_name), Some(peer_service), Some(method), None, Some(status_code),
         Some(duration_ms), None, None, None)

log_service_error(url_name, peer_service, method, error, error_type) ==
    Step("ERROR", "http.server.error", Some(url_name), Some(peer_service), Some(method),
         None, None, None, Some(error), Some(error_type), None)

\* Python: s.lstrip(ch)
RECURSIVE LStrip(_, _)
LStrip(s, ch) == IF s # <<>> /\ Head(s) = ch THEN LStrip(Tail(s), ch) ELSE s

\* Lines 91-93: the logical route name of a path.
UrlName(path) ==
    LET url_name == Replace(LStrip(path, "/"), <<"/">>, <<".">>)
    IN IF url_name = <<>> THEN <<"root">> ELSE url_name

\* headers.get(name) and headers.get(name, default)
HeaderGet(headers, name) == IF name \in DOMAIN headers THEN Some(headers[name]) ELSE None
HeaderGetOr(headers, name, default) == IF name \in DOMAIN headers THEN headers[name] ELSE default

\* headers[name] = value: the value replaces the one present, if any.
SetHeader(headers, name, value) ==
    [h \in DOMAIN headers \cup {name} |-> IF h = name THEN value ELSE headers[h]]

NoFrame == [trace_id |-> None, peer_service |-> None, url_name |-> None,
            response |-> None, status_code |-> None]

NoInbound == [headers |-> <<>>, path |-> <<>>, method |-> ""]

\* Faulty variant: the incoming id is bound as it came, the incremented one
\* only kept for the response header.
DispatchEnterBindsIncoming(request, draw) ==
    LET incoming_trace_id == HeaderGet(request.headers, "X-Trace-ID")
        trace_id == increment_trace_id(incoming_trace_id, None, draw)
        peer_service == HeaderGetOr(request.headers, "X-Service-Name", <<"unknown">>)
        url_name == UrlName(request.path)
    IN [bind |-> IF IsNone(incoming_trace_id) THEN <<>> ELSE Val(incoming_trace_id),
        frame |-> [trace_id |-> Some(trace_id), peer_service |-> Some(peer_service),
                   url_name |-> Some(url_name), response |-> None, status_code |-> Some(500)],
        steps |-> << GhostStep("dispatch", "received"),
                     GhostStep("set_trace_id", trace_id),
                     log_service_request(url_name, peer_service, request.path, request.method),
                     GhostStep("call_next", "entered") >>]

\* Faulty variant: the request event is written before the id is bound.
DispatchEnterLogsFirst(request, draw) ==
    LET incoming_trace_id == HeaderGet(request.headers, "X-Trace-ID")
        trace_id == increment_trace_id(incoming_trace_id, None, draw)
        peer_service == HeaderGetOr(request.headers, "X-Service-Name", <<"unknown">>)
        url_name == UrlName(request.path)
    IN [bind |-> trace_id,
        frame |-> [trace_id |-> Some(trace_id), peer_service |-> Some(peer_service),
                   url_name |-> Some(url_name), response |-> None, status_code |-> Some(500)],
        steps |-> << GhostStep("dispatch", "received"),
                     log_service_request(url_name, peer_service, request.path, request.method),
                     GhostStep("set_trace_id", trace_id),
                     GhostStep("call_next", "entered") >>]

\* Lines 80-108: dispatch from its first line to the await of call_next: the
\* id it binds with set_trace_id, its locals, and what it has done.
DispatchEnter(request, draw) ==
    LET incoming_trace_id == HeaderGet(request.headers, "X-Trace-ID")
        trace_id == increment_trace_id(incoming_trace_id, None, draw)
        peer_service == HeaderGetOr(request.headers, "X-Service-Name", <<"unknown">>)
        url_name == UrlName(request.path)
    IN [bind |-> trace_id,
        frame |-> [trace_id |-> Some(trace_id), peer_service |-> Some(peer_service),
                   url_name |-> Some(url_name), response |-> None, status_code |-> Some(500)],
        steps |-> << GhostStep("dispatch", "received"),
                     GhostStep("set_trace_id", trace_id),
                     log_service_request(url_name, peer_service, request.path, request.method),
                     GhostStep("call_next", "entered") >>]

\* Faulty variant: no error event is written.
ExceptClauseSilent(locals, request, exc) == <<>>

\* Lines 111-120: the except clause, for an exception that leaves the try
\* body: the error event, when the exception is an Exception.
ExceptClause(locals, request, exc) ==
    IF IsSubclass(exc.type, "Exception")
    THEN << log_service_error(Val(locals.url_name), Val(locals.peer_service),
                              request.method, exc.msg, exc.type) >>
    ELSE <<>>

\* Faulty variant: a header the handler has set is kept.
AttachTraceHeaderIfAbsent(response, trace_id) ==
    IF IsNone(response) THEN None
    ELSE IF "X-Trace-ID" \in DOMAIN Val(response).headers THEN response
    ELSE Some([Val(response) EXCEPT !.headers = SetHeader(@, "X-Trace-ID", trace_id)])

\* Lines 133-135: the response object after the finally clause.
AttachTraceHeader(response, trace_id) ==
    IF IsNone(response) THEN None
    ELSE Some([Val(response) EXCEPT !.headers = SetHeader(@, "X-Trace-ID", trace_id)])

\* Line 134: the ghost entry for the header attachment, made when there is a
\* response object.
HeaderAttachedStep(response, trace_id) ==
    IF IsNone(response) THEN <<>> ELSE << GhostStep("header_attached", trace_id) >>

\* Faulty variant: the response event is written only when there is a response.
FinallyClauseOnSuccessOnly(locals, request, duration_ms) ==
    [steps |-> IF IsNone(locals.response) THEN <<>>
               ELSE << log_service_response(Val(locals.url_name), Val(locals.peer_service),
                                            request.method, Val(locals.status_code),
                                            duration_ms) >>
                    \o HeaderAttachedStep(locals.response, Val(locals.trace_id)),
     response |-> AttachTraceHeader(locals.response, Val(locals.trace_id))]

\* Lines 121-135: the finally clause: the response event, and the response
\* object with the header attached.
FinallyClause(locals, request, duration_ms) ==
    [steps |-> << log_service_response(Val(locals.url_name), Val(locals.peer_service),
                                       request.method, Val(locals.status_code),
                                       duration_ms) >>
               \o HeaderAttachedStep(locals.response, Val(locals.trace_id)),
     response |-> AttachTraceHeader(locals.response, Val(locals.trace_id))]

\* Lines 107-135: dispatch from the end of call_next, which returned a
\* response or raised (h), to its exit: what it returns or raises, its
\* locals, and what it has done.
DispatchExit(locals, request, h, duration_ms) ==
    IF h.kind = "return"
    THEN LET in_try == [locals EXCEPT !.response = Some(h.value),
                                      !.status_code = Some(h.value.status_code)]
             f == FinallyClause(in_try, request, duration_ms)
         IN [outcome |-> Returned(Val(f.response)),
             frame |-> [in_try EXCEPT !.response = f.response],
             steps |-> << GhostStep("call_next.returned", h) >> \o f.steps]
    ELSE LET f == FinallyClause(locals, request, duration_ms)
         IN [outcome |-> Raised(h.exc),
             frame |-> [locals EXCEPT !.response = f.response],
             steps |-> << GhostStep("call_next.raised", h) >>
                       \o ExceptClause(locals, request, h.exc) \o f.steps]

\* ------------------------------------------------- inbound requests, handlers
\* Header sets of inbound requests: without and with X-Trace-ID (empty,
\* two segments), without and with X-Service-Name.
InboundHeaders ==
    { [h \in names |-> IF h = "X-Trace-ID" THEN t ELSE <<"nuntius">>] :
        names \in SUBSET {"X-Trace-ID", "X-Service-Name"},
        t \in { <<>>, <<"AAA11", ".", "BBB22">> } }

InboundPaths == { <<"/">>, <<"/", "api", "/", "users">> }

\* Responses a handler returns: with and without an X-Trace-ID of its own.
HandlerResponses ==
    { [status_code |-> st, headers |-> hs] :
        st \in {200, 404, 500},
        hs \in { [h \in {"Content-Type"} |-> <<"application/json">>],
                 [h \in {"Content-Type", "X-Trace-ID"} |->
                     IF h = "X-Trace-ID" THEN <<"HANDLER">> ELSE <<"application/json">>] } }

\* Exceptions call_next raises: what the handler let escape.
HandlerExceptions ==
    { OtherError("ValueError", "boom", None),
      ServiceError("request_failed", Some("census.get_user"), None, "httpx.ConnectError") }

\* time.time() differences in milliseconds.
Durations == {0, 120}

\* What the transport answers to the handler's client call.
HandlerTransportOutcomes ==
    { [kind |-> "response", status_code |-> 200, content |-> "obj_ok"],
      [kind |-> "response", status_code |-> 404, content |-> "empty"],
      [kind |-> "exception", type |-> "httpx.ReadTimeout"] }

\* ------------------------------------------------------ middleware actions
\* The framework calls dispatch for an inbound request, in chain Caller; it
\* runs until it awaits call_next.
Dispatch(headers, path, method, draw) ==
    /\ mpc = "idle"
    /\ pc = "idle"
    /\ LET request == [headers |-> headers, path |-> path, method |-> method]
           r == DispatchEnter(request, draw)
       IN /\ inbound' = request
          /\ set_trace_id(Caller, r.bind)
          /\ frame' = r.frame
          /\ steps' = r.steps
    /\ mpc' = "handler"
    /\ outcome' = NoResult
    /\ UNCHANGED segVars
    /\ UNCHANGED regVars

\* call_next returns the handler's response; dispatch runs to its exit.
HandlerReturns(response, duration_ms) ==
    /\ mpc = "handler"
    /\ pc \in {"idle", "returned"}
    /\ LET r == DispatchExit(frame, inbound, Returned(response), duration_ms)
       IN /\ outcome' = r.outcome
          /\ frame' = r.frame
          /\ steps' = steps \o r.steps
    /\ mpc' = "returned"
    /\ UNCHANGED inbound
    /\ UNCHANGED <<ctxVars, cliVars, segVars, regVars>>

\* call_next raises what the handler let escape; dispatch runs to its exit.
HandlerRaises(exc, duration_ms) ==
    /\ mpc = "handler"
    /\ pc \in {"idle", "raised"}
    /\ LET r == DispatchExit(frame, inbound, Raised(exc), duration_ms)
       IN /\ outcome' = r.outcome
          /\ frame' = r.frame
          /\ steps' = steps \o r.steps
    /\ mpc' = "raised"
    /\ UNCHANGED inbound
    /\ UNCHANGED <<ctxVars, cliVars, segVars, regVars>>

\* The await of call_next is cancelled (the client went away):
\* asyncio.CancelledError is raised into dispatch.
DispatchCancelled(duration_ms) ==
    /\ mpc = "handler"
    /\ pc \in {"idle", "awaiting"}
    /\ LET exc == OtherError("asyncio.CancelledError", "", None)
           r == DispatchExit(frame, inbound, [kind |-> "cancel", exc |-> exc], duration_ms)
       IN /\ outcome' = r.outcome
          /\ frame' = r.frame
          /\ steps' = steps \o r.steps
    /\ mpc' = "raised"
    /\ UNCHANGED inbound
    /\ UNCHANGED <<ctxVars, cliVars, segVars, regVars>>

\* The request is over: its frame and the context it ran in are gone; the
\* next request starts in a context with the default value.
RequestOver ==
    /\ mpc \in {"returned", "raised"}
    /\ mpc' = "idle"
    /\ inbound' = NoInbound
    /\ frame' = NoFrame
    /\ steps' = <<>>
    /\ outcome' = NoResult
    /\ trace_id_ctx' = [trace_id_ctx EXCEPT ![Caller] = None]
    /\ lastBound' = [lastBound EXCEPT ![Caller] = None]
    /\ lastRead' = [lastRead EXCEPT ![Caller] = None]
    /\ boundAtRead' = [boundAtRead EXCEPT ![Caller] = None]
    /\ pc' = "idle"
    /\ call' = NoCall
    /\ sent' = <<>>
    /\ log' = <<>>
    /\ reply' = None
    /\ result' = NoResult
    /\ UNCHANGED <<endpoints, settings, cache, max_retries>>
    /\ UNCHANGED segVars
    /\ UNCHANGED regVars

\* ------------------------------------------- actions on the endpoint registry
\* Keys and endpoints callers register, and the batches built from them.
RegKeys == {"", "census.get_user", "hermes.put_msg"}
RegEndpoints == { StartupEndpoints["census.get_user"], StartupEndpoints["hermes.put_msg"] }
Batches == UNION { [ks -> RegEndpoints] : ks \in SUBSET RegKeys }

\* The record of one call: its arguments, the registry before it, whether it
\* returned, the exception or the value, and for a lookup that failed the
\* keys its message names.
RegCall(op, key, batch, r, value, available) ==
    [op |-> op, key |-> key, batch |-> batch, before |-> endpoints,
     ok |-> r.ok, exc |-> r.exc, value |-> value, available |-> available]

RegFrame ==
    /\ UNCHANGED <<settings, cache, pc, call, sent, log, reply, result, max_retries>>
    /\ UNCHANGED <<svccall, resolved, urlcall, emitted, regthreads>>
    /\ UNCHANGED <<ctxVars, segVars, mwVars>>

Call_register(key, endpoint) ==
    LET r == EndpointRegistry_register(endpoints, key, endpoint) IN
    /\ endpoints' = r.endpoints
    /\ regcall' = RegCall("register", Some(key), << >>, r, Some(endpoint), None)
    /\ RegFrame

Call_bulk_register(batch) ==
    LET r == EndpointRegistry_bulk_register(endpoints, batch) IN
    /\ endpoints' = r.endpoints
    /\ regcall' = RegCall("bulk_register", None, batch, r, None, None)
    /\ RegFrame

Call_get(key) ==
    LET got == EndpointRegistry_get(endpoints, key) IN
    /\ regcall' = IF got.ok
                  THEN RegCall("get", Some(key), << >>, [ok |-> TRUE, exc |-> None], Some(got.endpoint), None)
                  ELSE RegCall("get", Some(key), << >>, [ok |-> FALSE, exc |-> Some(got.exc)], None, Some(got.available))
    /\ UNCHANGED endpoints
    /\ RegFrame

Call_unregister(key) ==
    LET r == EndpointRegistry_unregister(endpoints, key) IN
    /\ endpoints' = r.endpoints
    /\ regcall' = RegCall("unregister", Some(key), << >>, r, None, None)
    /\ RegFrame

Call_clear ==
    LET r == EndpointRegistry_clear(endpoints) IN
    /\ endpoints' = r.endpoints
    /\ regcall' = RegCall("clear", None, << >>, r, None, None)
    /\ RegFrame

\* ------------------------------- threads registering on one shared registry
\* Two threads call register and bulk_register on the same EndpointRegistry.
\* The registry has no lock; each access to the dict _endpoints (a membership
\* test, a store, an update) is one step, and the interpreter may switch
\* threads between any two of them.
Threads == {"T1", "T2"}
NoThreadCall == [op |-> "none", at |-> "idle"]

\* What the two thread calls leave alone.
ThreadFrame ==
    /\ UNCHANGED <<settings, cache, pc, call, sent, log, reply, result, max_retries>>
    /\ UNCHANGED <<regcall, svccall, resolved, urlcall, emitted>>
    /\ UNCHANGED <<ctxVars, segVars, mwVars>>

\* register, lines 52-53: thread t enters the call; an empty key raises
\* before the registry is read.
Thread_register_enter(t, key, endpoint) ==
    /\ regthreads[t].at \in {"idle", "done"}
    /\ regthreads' = [regthreads EXCEPT ![t] =
          [op |-> "register", key |-> key, endpoint |-> endpoint, before |-> endpoints,
           at |-> IF key = "" THEN "done" ELSE "test", ok |-> FALSE,
           exc |-> IF key = "" THEN "empty_key" ELSE "none"]]
    /\ UNCHANGED endpoints
    /\ ThreadFrame

\* register, lines 55-56: the membership test.
Thread_register_test(t) ==
    /\ regthreads[t].op = "register"
    /\ regthreads[t].at = "test"
    /\ regthreads' = [regthreads EXCEPT ![t] =
          IF regthreads[t].key \in DOMAIN endpoints
          THEN [@ EXCEPT !.at = "done", !.exc = "already_registered"]
          ELSE [@ EXCEPT !.at = "store"]]
    /\ UNCHANGED endpoints
    /\ ThreadFrame

\* register, line 58: the store, then the return.
Thread_register_store(t) ==
    /\ regthreads[t].op = "register"
    /\ regthreads[t].at = "store"
    /\ endpoints' = DictSet(endpoints, regthreads[t].key, regthreads[t].endpoint)
    /\ regthreads' = [regthreads EXCEPT ![t] = [@ EXCEPT !.at = "done", !.ok = TRUE]]
    /\ ThreadFrame

\* bulk_register, lines 175-181: thread t enters the call and computes the
\* conflicts of its batch against the registry; a conflict raises.
Thread_bulk_register_test(t, batch) ==
    LET conflicts == { key \in DOMAIN batch : key \in DOMAIN endpoints } IN
    /\ regthreads[t].at \in {"idle", "done"}
    /\ regthreads' = [regthreads EXCEPT ![t] =
          [op |-> "bulk_register", batch |-> batch, before |-> endpoints,
           at |-> IF conflicts # {} THEN "done" ELSE "store", ok |-> FALSE,
           exc |-> IF conflicts # {} THEN "already_registered" ELSE "none"]]
    /\ UNCHANGED endpoints
    /\ ThreadFrame

\* bulk_register, line 183: the update, then the return.
Thread_bulk_register_update(t) ==
    /\ regthreads[t].op = "bulk_register"
    /\ regthreads[t].at = "store"
    /\ endpoints' = DictUpdate(endpoints, regthreads[t].batch)
    /\ regthreads' = [regthreads EXCEPT ![t] = [@ EXCEPT !.at = "done", !.ok = TRUE]]
    /\ ThreadFrame

\* ------------------------------------------- actions on the service registry
\* Names callers resolve, fields of the settings object that are set or
\* deleted between calls, and the values they are given.
ServiceNames == {"census", "CENSUS", "Hermes"}
ServiceFields == { <<"census", "_base_url">>, <<"hermes", "_base_url">> }
Urls == {U_census, U_hermes}

SvcFrame ==
    /\ UNCHANGED <<endpoints, pc, call, sent, log, reply, result, max_retries>>
    /\ UNCHANGED <<regcall, urlcall, emitted, regthreads>>
    /\ UNCHANGED <<ctxVars, segVars, mwVars>>

\* One call of get_base_url.  The record keeps the cache before the call,
\* whether the name had been resolved since the last clear_cache (first), and,
\* when the call follows clear_cache directly, the entries that call dropped.
Call_get_base_url(service_name) ==
    LET r == get_base_url(cache, settings, service_name) IN
    /\ cache' = r.cache
    /\ svccall' = [op |-> "get_base_url", service_name |-> service_name,
                   field_name |-> <<Lower(service_name), "_base_url">>,
                   before |-> cache, first |-> service_name \notin DOMAIN resolved,
                   ok |-> r.ok, url |-> r.url,
                   available |-> IF r.ok THEN None ELSE Some(r.available),
                   dropped |-> IF svccall.op = "clear_cache" THEN svccall.before ELSE << >>]
    /\ resolved' = IF r.ok /\ service_name \notin DOMAIN resolved
                   THEN DictSet(resolved, service_name, r.url)
                   ELSE resolved
    /\ UNCHANGED settings
    /\ SvcFrame

\* The settings object is given a value for a field (new or present).
SettingsSet(field, value) ==
    /\ settings' = DictSet(settings, field, value)
    /\ settings' # settings
    /\ svccall' = [op |-> "setattr"]
    /\ UNCHANGED <<cache, resolved>>
    /\ SvcFrame

\* A field of the settings object is deleted.
SettingsDelete(field) ==
    /\ field \in DOMAIN settings
    /\ settings' = DictDel(settings, field)
    /\ svccall' = [op |-> "delattr"]
    /\ UNCHANGED <<cache, resolved>>
    /\ SvcFrame

Call_clear_cache ==
    /\ cache' = clear_cache(cache)
    /\ svccall' = [op |-> "clear_cache", before |-> cache]
    /\ resolved' = << >>
    /\ UNCHANGED settings
    /\ SvcFrame

\* ----------------------------------------------------- calls of _build_url
\* Path-parameter maps: None, the empty dict and every dict of one or two
\* keys in insertion order, over three keys and three values, one of which
\* is brace text.
UrlKeys == {K_i, K_j, K_k}
UrlValues == {V_7, V_9, V_brace_j}
UrlItems == UrlKeys \X UrlValues
ParamMaps ==
    { None, Some(<<>>) }
      \cup { Some(<<a>>) : a \in UrlItems }
      \cup { Some(<<p[1], p[2]>>) : p \in { q \in UrlItems \X UrlItems : q[1][1] # q[2][1] } }

\* One call of _build_url on a registered endpoint: the resolved base URL,
\* the URL returned and the warnings written.
Call_build_url(endpoint_key, path_params) ==
    LET endpoint == endpoints[endpoint_key]
        r == build_url(cache, settings, endpoint, path_params)
    IN /\ cache' = r.cache
       /\ urlcall' = [op |-> "_build_url", endpoint |-> endpoint, path_params |-> path_params,
                      ok |-> r.ok, base_url |-> get_base_url(cache, settings, endpoint.service).url,
                      url |-> r.url, warnings |-> r.warnings]
       /\ UNCHANGED <<endpoints, settings, pc, call, sent, log, reply, result, max_retries>>
       /\ UNCHANGED <<regcall, svccall, resolved, emitted, regthreads>>
       /\ UNCHANGED <<ctxVars, segVars, mwVars>>

\* ------------------------------------------------ observability/logging.py
\* Most records kept of one run.
MaxRecords == 2

\* Faulty variant: the filter reads the trace id of the first chain, whichever
\* chain emits.
ContextFilter_filter_first_chain(ctx, c, st) ==
    [service_name |-> st[<<"service_name", "">>], trace_id |-> ContextVarGet(ctx, Caller)]

\* ContextFilter.filter run by chain c on a record it emits: the fields put on
\* the record (the service fields from the settings, the trace id from
\* get_trace_id()); the record always passes.
ContextFilter_filter(ctx, c, st) ==
    [service_name |-> st[<<"service_name", "">>], trace_id |-> ContextVarGet(ctx, c)]

\* Chain c logs a record; the handler runs the filter in c before it writes.
\* chain and bound are ghosts: the emitting chain and the id it had bound
\* last (None after clear_trace_id or when it bound none).
Emit(c) ==
    /\ Len(emitted) < MaxRecords
    /\ get_trace_id(c)
    /\ emitted' = Append(emitted, [chain |-> c, bound |-> lastBound[c],
                                   fields |-> ContextFilter_filter(trace_id_ctx, c, settings)])
    /\ UNCHANGED <<regcall, svccall, resolved, urlcall, regthreads>>
    /\ UNCHANGED <<segVars, mwVars>>

\* ------------------------------------------------------------ specifications
InitCtx ==
    /\ trace_id_ctx = [c \in Chains |-> None]
    /\ lastBound = [c \in Chains |-> None]
    /\ lastRead = [c \in Chains |-> None]
    /\ boundAtRead = [c \in Chains |-> None]

NoRegCall == [op |-> "none"]
NoSvcCall == [op |-> "none"]
NoUrlCall == [op |-> "none"]

InitReg ==
    /\ emitted = <<>>
    /\ regthreads = [t \in Threads |-> NoThreadCall]
    /\ regcall = NoRegCall
    /\ svccall = NoSvcCall
    /\ resolved = << >>
    /\ urlcall = NoUrlCall

\* A client built over the registry eps with max_retries = m, nothing called yet.
InitClientOver(eps, m) ==
    /\ max_retries = m
    /\ endpoints = eps
    /\ settings = StartupSettings
    /\ cache = << >>
    /\ pc = "idle"
    /\ call = NoCall
    /\ sent = <<>>
    /\ log = <<>>
    /\ reply = None
    /\ result = NoResult

InitClientWith(m) == InitClientOver(StartupEndpoints, m)

InitClient == InitClientWith(DefaultMaxRetries)

InitSeg ==
    /\ applied = NoApplication
    /\ hops = <<>>
    /\ hist = <<>>

InitMw ==
    /\ mpc = "idle"
    /\ inbound = NoInbound
    /\ frame = NoFrame
    /\ steps = <<>>
    /\ outcome = NoResult

Init == InitCtx /\ InitClient /\ InitSeg /\ InitMw /\ InitReg

\* Clients built with each value of max_retries.
InitRetry ==
    /\ InitCtx /\ InitSeg /\ InitMw /\ InitReg
    /\ \E m \in MaxRetriesChoices : InitClientWith(m)

\* One calling chain using the client; between calls it binds or clears its
\* trace id.
Next ==
    \/ \E entry \in {"request", "get", "post", "put", "delete"}, key \in EndpointKeys,
          pp \in PathParamChoices, qp \in QueryParamChoices, body \in BodyChoices :
            Request(entry, key, pp, qp, body)
    \/ \E o \in TransportOutcomes : TransportReply(o)
    \/ CallerResumes
    \/ \E t \in CallerTraceIds : pc = "idle" /\ set_trace_id(Caller, t) /\ UNCHANGED <<segVars, mwVars, regVars>>
    \/ pc = "idle" /\ clear_trace_id(Caller) /\ UNCHANGED <<segVars, mwVars, regVars>>

Spec == Init /\ [][Next]_vars

\* Concurrent call chains working on the trace context.
NextCtx ==
    \/ \E c \in Chains : get_trace_id(c) /\ UNCHANGED <<segVars, mwVars, regVars>>
    \/ \E c \in Chains, t \in TraceIds : set_trace_id(c, t) /\ UNCHANGED <<segVars, mwVars, regVars>>
    \/ \E c \in Chains : clear_trace_id(c) /\ UNCHANGED <<segVars, mwVars, regVars>>

SpecCtx == Init /\ [][NextCtx]_vars

\* Calls of the two trace functions with every combination of arguments.
NextSeg ==
    \/ \E trace_id \in IdArgs, segment \in SegmentArgs, draw \in SegmentDraws :
          Call_append_trace_segment(trace_id, segment, draw)
    \/ \E trace_id \in IdArgs, segment \in SegmentArgs, draw \in SegmentDraws :
          Call_increment_trace_id(trace_id, segment, draw)

SpecSeg == Init /\ [][NextSeg]_vars

\* One call chain passing through up to MaxHops services.
NextHops == \E draw \in SegmentDraws : Hop(draw)

SpecHops == Init /\ [][NextHops]_vars

\* One chain working on its trace context, its operations recorded, while
\* the other chains work on theirs.
NextHist ==
    \/ Recorded_get
    \/ \E t \in TraceIds : Recorded_set(t)
    \/ Recorded_clear
    \/ \E c \in Chains \ {Caller}, t \in TraceIds : set_trace_id(c, t) /\ UNCHANGED <<segVars, mwVars, regVars>>
    \/ \E c \in Chains \ {Caller} : clear_trace_id(c) /\ UNCHANGED <<segVars, mwVars, regVars>>

SpecHist == Init /\ [][NextHist]_vars

\* A service handling inbound requests one after the other in chain Caller;
\* the handler reads the trace id and calls another service through the
\* client; the other chains work on their own trace context meanwhile.
NextMw ==
    \/ \E headers \in InboundHeaders, path \in InboundPaths, draw \in SegmentDraws :
          Dispatch(headers, path, "GET", draw)
    \/ mpc = "handler" /\ get_trace_id(Caller) /\ UNCHANGED <<segVars, mwVars, regVars>>
    \/ mpc = "handler" /\ Request("get", "census.get_user", Some(<< <<K_i, V_7>> >>), None, None)
    \/ \E o \in HandlerTransportOutcomes : mpc = "handler" /\ TransportReply(o)
    \/ mpc = "handler" /\ CallerResumes
    \/ \E response \in HandlerResponses, d \in Durations : HandlerReturns(response, d)
    \/ \E exc \in HandlerExceptions, d \in Durations : HandlerRaises(exc, d)
    \/ \E d \in Durations : DispatchCancelled(d)
    \/ RequestOver
    \/ \E c \in Chains \ {Caller} : set_trace_id(c, <<"AAA11">>) /\ UNCHANGED <<segVars, mwVars, regVars>>

SpecMw == Init /\ [][NextMw]_vars

\* Calls of a client to one endpoint of each dispatch branch, with every
\* transport outcome.
NextRetry ==
    \/ \E key \in {"census.get_user", "census.create_user", "hermes.del_msg", "census.head_user"},
          body \in {None, Some("CreateRequest")} :
            Request("request", key, Some(<< <<K_i, V_7>> >>), None, body)
    \/ \E o \in TransportOutcomes : TransportReply(o)
    \/ CallerResumes

SpecRetry == InitRetry /\ [][NextRetry]_vars

\* Concurrent call chains that bind, clear and log.
NextLog ==
    \/ \E c \in Chains, t \in TraceIds : set_trace_id(c, t) /\ UNCHANGED <<segVars, mwVars, regVars>>
    \/ \E c \in Chains : clear_trace_id(c) /\ UNCHANGED <<segVars, mwVars, regVars>>
    \/ \E c \in Chains : Emit(c)

SpecLog == Init /\ [][NextLog]_vars

\* Calls through every entry point to endpoints of every HttpMethod value.
InitMethods ==
    /\ InitCtx /\ InitSeg /\ InitMw /\ InitReg
    /\ InitClientOver(MethodEndpoints, DefaultMaxRetries)

NextMethods ==
    \/ \E entry \in {"request", "get", "post", "put", "delete"}, key \in HttpMethod,
          body \in {None, Some("CreateRequest")} :
            Request(entry, key, Some(<< <<K_i, V_7>> >>), None, body)
    \/ \E o \in { t \in TransportOutcomes : t.kind = "exception" \/ t.content \in {"empty", "obj_ok"} } :
          TransportReply(o)
    \/ CallerResumes

SpecMethods == InitMethods /\ [][NextMethods]_vars

\* An endpoint registry from its construction on, under every call of its
\* methods.
InitRegistry ==
    /\ InitCtx /\ InitSeg /\ InitMw /\ InitReg
    /\ InitClientOver(EmptyRegistry, DefaultMaxRetries)

NextRegistry ==
    \/ \E key \in RegKeys, endpoint \in RegEndpoints : Call_register(key, endpoint)
    \/ \E batch \in Batches : Call_bulk_register(batch)
    \/ \E key \in RegKeys : Call_get(key)
    \/ \E key \in RegKeys : Call_unregister(key)
    \/ Call_clear

SpecRegistry == InitRegistry /\ [][NextRegistry]_vars

\* Two threads registering on an empty registry, in every interleaving of
\* their dict accesses.
ThreadKeys == {"census.get_user", "hermes.put_msg"}
ThreadBatches == UNION { [ks -> {StartupEndpoints["census.get_user"]}] : ks \in SUBSET ThreadKeys \ {{}} }
NextThreads ==
    \/ \E t \in Threads, key \in ThreadKeys \cup {""}, endpoint \in RegEndpoints : Thread_register_enter(t, key, endpoint)
    \/ \E t \in Threads : Thread_register_test(t)
    \/ \E t \in Threads : Thread_register_store(t)
    \/ \E t \in Threads, batch \in ThreadBatches : Thread_bulk_register_test(t, batch)
    \/ \E t \in Threads : Thread_bulk_register_update(t)

SpecThreads == InitRegistry /\ [][NextThreads]_vars

\* A service registry from its construction on: lookups, changes of the
\* settings object, clear_cache.
NextServices ==
    \/ \E service_name \in ServiceNames : Call_get_base_url(service_name)
    \/ \E field \in ServiceFields, value \in Urls : SettingsSet(field, value)
    \/ \E field \in ServiceFields : SettingsDelete(field)
    \/ Call_clear_cache

SpecServices == Init /\ [][NextServices]_vars

\* _build_url on registered endpoints (one per path template, one of a
\* service without settings field), with every parameter map.
UrlEndpointKeys == {"census.get_user", "census.list_users", "hermes.put_msg", "ghost.ping"}

NextUrl ==
    \E endpoint_key \in UrlEndpointKeys, path_params \in ParamMaps :
        Call_build_url(endpoint_key, path_params)

SpecUrl == Init /\ [][NextUrl]_vars

\* ------------------------------------------------------------------ claims
\* C1: trace-context isolation.  In every interleaving of concurrent chains
\* calling set_trace_id, clear_trace_id and get_trace_id, the value a chain's
\* context holds is the one that chain bound last (None if it bound none or
\* cleared), and each get_trace_id returned what the reading chain had bound
\* last at that moment: no chain sees or overwrites another chain's value.
C1_TraceContextIsolation ==
    \A c \in Chains :
        /\ ContextVarGet(trace_id_ctx, c) = lastBound[c]
        /\ (~IsNone(lastRead[c]) => Val(lastRead[c]) = boundAtRead[c])

\* Two chains hold different bound ids and each has read its own.
C1_Witness ==
    \E c, d \in Chains :
        /\ c # d
        /\ ~IsNone(lastBound[c]) /\ ~IsNone(lastBound[d])
        /\ lastBound[c] # lastBound[d]
        /\ lastRead[c] = Some(lastBound[c])
        /\ lastRead[d] = Some(lastBound[d])

\* The current call has ended (returned or raised).
CallEnded == pc \in {"returned", "raised"}

\* The transport answered the current call with a response of status st.
ReplyStatus(st) ==
    /\ ~IsNone(reply)
    /\ Val(reply).kind = "response"
    /\ Val(reply).status_code = st

\* The current call raised an exception of exactly type t.
RaisedType(t) == pc = "raised" /\ result.kind = "raise" /\ result.exc.type = t

\* C2: HTTP 404 classification.  When the transport returns status 404 for a
\* registered endpoint, request raises ServiceNotFoundError to the caller.
C2_NotFoundRaised ==
    (CallEnded /\ ReplyStatus(404)) => RaisedType("ServiceNotFoundError")

\* C3: HTTP 5xx classification.  When the transport returns a status >= 500,
\* request raises ServiceUnavailableError carrying that status code.
C3_UnavailableRaised ==
    \A st \in Statuses :
        (CallEnded /\ st >= 500 /\ ReplyStatus(st)) =>
            /\ RaisedType("ServiceUnavailableError")
            /\ result.exc.status_code = Some(st)

\* The transport answered 2xx with JSON content.
ReplyJson ==
    /\ ~IsNone(reply)
    /\ Val(reply).kind = "response"
    /\ IsSuccess(Val(reply).status_code)
    /\ Val(reply).content \in {"obj_ok", "obj_bad", "list_ok"}

\* C4: response schema mismatch.  When the transport returns 2xx with a
\* non-empty body that does not match the endpoint's response model, request
\* raises the pydantic ValidationError itself to the caller.
C4_ValidationErrorPropagates ==
    (CallEnded /\ ReplyJson
       /\ ~MatchesModel(Val(call.locals.endpoint).response_model, Val(reply).content))
    => RaisedType("pydantic.ValidationError")

\* The transport call of the current call ended in a timeout exception.
ReplyTimeout ==
    /\ ~IsNone(reply)
    /\ Val(reply).kind = "exception"
    /\ Val(reply).type = "httpx.ReadTimeout"

\* C5: timeout classification.  When the transport raises a timeout exception,
\* request raises ServiceTimeoutError with the endpoint key and no status
\* code, not the raw transport exception.
C5_TimeoutTranslated ==
    (CallEnded /\ ReplyTimeout) =>
        /\ RaisedType("ServiceTimeoutError")
        /\ result.exc.endpoint = Some(call.endpoint_key)
        /\ result.exc.status_code = None

C5_Witness == pc = "raised" /\ ReplyTimeout /\ Len(sent) = 1

\* C6: other non-2xx classification.  For every status that is not 2xx, not
\* 404 and below 500, request raises the generic ServiceError carrying that
\* status code.
C6_OtherStatusGeneric ==
    \A st \in Statuses :
        (CallEnded /\ ~IsSuccess(st) /\ st # 404 /\ st < 500 /\ ReplyStatus(st)) =>
            /\ RaisedType("ServiceError")
            /\ result.exc.status_code = Some(st)

C6_Witness == pc = "raised" /\ ReplyStatus(422) /\ Len(sent) = 1

\* C7: successful result.  When the transport returns 2xx, request returns
\* None if the body is empty, and the body validated against the endpoint's
\* response model if the body is non-empty and matches the model.
C7_SuccessResult ==
    (CallEnded /\ ~IsNone(reply) /\ Val(reply).kind = "response"
       /\ IsSuccess(Val(reply).status_code)) =>
        LET model == Val(call.locals.endpoint).response_model
            content == Val(reply).content
        IN /\ (content = "empty" => pc = "returned" /\ result = Returned(None))
           /\ ((content # "empty" /\ MatchesModel(model, content)) =>
                  pc = "returned" /\ result = Returned(Some(<<model, content>>)))

\* A call is under way or has just ended.
InCall == pc # "idle"

\* The endpoint key of the current call is registered.
KeyRegistered == call.endpoint_key \in DOMAIN endpoints

\* The service of the current call's endpoint has a base URL: a settings
\* field <lower-cased name>_base_url, or an entry cached earlier.
ServiceResolvable ==
    LET service == endpoints[call.endpoint_key].service
    IN \/ <<Lower(service), "_base_url">> \in DOMAIN settings
       \/ service \in DOMAIN cache

\* C8: configuration errors never reach the network.  When the endpoint key
\* is not registered, request raises KeyError, and when the endpoint's service
\* has no resolvable base URL it raises ValueError; in both cases no transport
\* call has been made.
C8_ConfigErrorNoDispatch ==
    /\ (InCall /\ ~KeyRegistered) =>
          RaisedType("KeyError") /\ sent = <<>>
    /\ (InCall /\ KeyRegistered /\ ~ServiceResolvable) =>
          RaisedType("ValueError") /\ result.exc.msg = "service_not_configured" /\ sent = <<>>

C8_Witness ==
    /\ pc = "raised"
    /\ call.endpoint_key = "ghost.ping"
    /\ result.exc.msg = "service_not_configured"
    /\ sent = <<>>

\* The current call was given a body, its endpoint declares a request model,
\* and the body is not an instance of that model.
BodyOfWrongType ==
    /\ KeyRegistered
    /\ ~IsNone(call.body)
    /\ endpoints[call.endpoint_key].request_model # "None"
    /\ Val(call.body) # endpoints[call.endpoint_key].request_model

\* C9: request body validation precedes I/O.  When a body is supplied and the
\* endpoint declares a request model of which the body is not an instance,
\* request raises the validation error (ValueError) and no transport call has
\* been made.
C9_BodyValidatedBeforeDispatch ==
    (InCall /\ KeyRegistered /\ ServiceResolvable /\ BodyOfWrongType) =>
        /\ RaisedType("ValueError")
        /\ result.exc.msg = "request_body_type"
        /\ sent = <<>>

C9_Witness ==
    /\ pc = "raised"
    /\ BodyOfWrongType
    /\ result.exc.msg = "request_body_type"
    /\ call.body = Some("OtherRequest")

\* The log of the current call holds the outbound request event, and nothing
\* but URL-building warnings was logged before it.
RequestEventEmitted ==
    \E i \in 1..Len(log) :
        /\ log[i].msg = "http.client.request"
        /\ log[i].endpoint_key = Some(call.endpoint_key)
        /\ \A j \in 1..(i - 1) :
              log[j].msg \in {"path_parameter_not_found", "unreplaced_parameters"}

\* C10 as stated: every call of request that terminates by raising an error
\* has emitted the pre-dispatch outbound request event before raising.
C10_RequestEventOnEveryError ==
    pc = "raised" => RequestEventEmitted

\* Endpoint lookup, base-URL resolution and request-body validation of the
\* current call have all succeeded.
PreChecksPass == KeyRegistered /\ ServiceResolvable /\ ~BodyOfWrongType

\* C10 amended: every call of request that terminates by raising an error
\* after endpoint lookup, base-URL resolution and request-body validation
\* have succeeded has emitted the pre-dispatch outbound request event before
\* raising.
C10_RequestEventAfterPreChecks ==
    (pc = "raised" /\ PreChecksPass) => RequestEventEmitted

C10_Witness ==
    /\ pc = "raised"
    /\ PreChecksPass
    /\ ReplyStatus(503)
    /\ RequestEventEmitted

\* Positions in the current call's log of the records with message m.
LogIndexes(m) == { i \in 1..Len(log) : log[i].msg = m }

\* C11: request/response event pairing.  Within one request call the outbound
\* request event is never emitted more than once; a call that makes its
\* transport call has emitted it exactly once, and did so before the transport
\* call; and every response event in the call's log is preceded by the
\* request event of the same call.
C11_EventPairing ==
    /\ Cardinality(LogIndexes("http.client.request")) <= 1
    /\ sent # <<>> =>
          /\ Cardinality(LogIndexes("http.client.request")) = 1
          /\ ~IsNone(call.logged_at_dispatch)
          /\ \A i \in LogIndexes("http.client.request") :
                i <= Val(call.logged_at_dispatch)
    /\ \A j \in LogIndexes("http.client.response") :
          \E i \in LogIndexes("http.client.request") :
              /\ i < j
              /\ log[i].endpoint_key = log[j].endpoint_key
              /\ log[i].endpoint_key = Some(call.endpoint_key)

\* A call has returned after its transport call, with both events logged.
C11_Witness ==
    /\ pc = "returned"
    /\ Len(sent) = 1
    /\ LogIndexes("http.client.request") # {}
    /\ LogIndexes("http.client.response") # {}

\* Positions in the current call's log of the failure records: warn- or
\* error-level records other than the warnings of URL building.
FailureRecords ==
    { i \in 1..Len(log) :
        /\ log[i].level \in {"WARNING", "ERROR"}
        /\ log[i].msg \notin {"path_parameter_not_found", "unreplaced_parameters"} }

\* C12: failures are logged once.  Every request call that fails after its
\* transport call (404, 5xx, other non-2xx, timeout, transport failure,
\* response schema mismatch) has written exactly one warn- or error-level
\* failure record when it raises to the caller.
C12_FailureLoggedOnce ==
    (pc = "raised" /\ ~IsNone(reply)) => Cardinality(FailureRecords) = 1

\* The headers of the current call's transport call carry X-Trace-ID = t.
SentTraceHeader(t) ==
    /\ "X-Trace-ID" \in DOMAIN sent[1].headers
    /\ sent[1].headers["X-Trace-ID"] = t

\* The headers of the current call's transport call carry no X-Trace-ID.
SentNoTraceHeader == "X-Trace-ID" \notin DOMAIN sent[1].headers

\* C13 as stated: the headers built for an outbound request carry X-Trace-ID
\* equal to the trace id currently bound in the calling chain, and carry no
\* X-Trace-ID header when no trace id is bound.
C13_HeaderEqualsBound ==
    sent # <<>> =>
        LET bound == ContextVarGet(trace_id_ctx, Caller)
        IN IF IsNone(bound) THEN SentNoTraceHeader ELSE SentTraceHeader(Val(bound))

\* C13 amended: the headers built for an outbound request carry X-Trace-ID
\* equal to the bound trace id, with no segment added, when a non-empty trace
\* id is bound in the calling chain, and carry no X-Trace-ID header when no
\* trace id is bound or the bound id is the empty string.
C13_HeaderEqualsNonEmptyBound ==
    sent # <<>> =>
        LET bound == ContextVarGet(trace_id_ctx, Caller)
        IN IF IsNone(bound) \/ Val(bound) = <<>>
           THEN SentNoTraceHeader
           ELSE SentTraceHeader(Val(bound))

\* A transport call was made while a two-segment id was bound.
C13_Witness ==
    /\ sent # <<>>
    /\ ContextVarGet(trace_id_ctx, Caller) = Some(<<"AAA11", ".", "BBB22">>)
    /\ SentTraceHeader(<<"AAA11", ".", "BBB22">>)

\* C15: append-only hop chain.  Along a chain of service hops in which the
\* first hop receives no X-Trace-ID and every hop forwards its bound id
\* unchanged to the next, the id bound at hop i has exactly i dot-separated
\* segments, equals the id bound at hop i-1 followed by "." and one new
\* segment, and begins with the segments of every earlier hop unchanged.
C15_AppendOnlyChain ==
    \A i \in 1..Len(hops) :
        /\ Len(Split(hops[i])) = i
        /\ i > 1 => \E s \in SegmentDraws : hops[i] = hops[i - 1] \o <<".", s>>
        /\ \A j \in 1..i : SubSeq(Split(hops[i]), 1, j) = Split(hops[j])

\* A chain has passed through three services.
C15_Witness ==
    /\ Len(hops) >= 3
    /\ Len(Split(hops[3])) = 3
    /\ Len(Split(hops[1])) = 1

\* C16: append_trace_segment(id, seg) and increment_trace_id(id, seg) return
\* seg alone when id is None or the empty string, and id + "." + seg
\* otherwise, for every id and every explicit seg; the id passed in is the
\* same value after the call.
C16_AppendResult ==
    (applied.fn # "none" /\ ~IsNone(applied.segment)) =>
        applied.result =
            IF IsNone(applied.trace_id) \/ Val(applied.trace_id) = <<>>
            THEN Val(applied.segment)
            ELSE Val(applied.trace_id) \o <<".">> \o Val(applied.segment)

\* increment_trace_id("TRACE.AAA11", "SERVICE") has been called.
C16_Witness ==
    /\ applied.fn = "increment_trace_id"
    /\ applied.trace_id = Some(<<"TRACE", ".", "AAA11">>)
    /\ applied.segment = Some(<<"SERVICE">>)
    /\ applied.result = <<"TRACE", ".", "AAA11", ".", "SERVICE">>

\* What the recorded operations before position n leave bound: the value of
\* the last set, None after a clear or when nothing was set.
RECURSIVE BoundAfter(_, _)
BoundAfter(h, n) ==
    IF n = 0 THEN None
    ELSE IF h[n].op = "get" THEN BoundAfter(h, n - 1)
    ELSE h[n].value

\* C17: within one call chain, get_trace_id returns absent before any set,
\* the value of the most recent set_trace_id after any sequence of sets, and
\* absent after clear_trace_id.
C17_GetReturnsLastSet ==
    \A i \in 1..Len(hist) :
        hist[i].op = "get" => hist[i].value = BoundAfter(hist, i - 1)

\* Two different ids were set one after the other and then read.
C17_Witness ==
    /\ Len(hist) >= 3
    /\ hist[1].op = "set" /\ hist[2].op = "set" /\ hist[3].op = "get"
    /\ hist[1].value # hist[2].value
    /\ hist[3].value = hist[2].value

\* The X-Trace-ID header of the inbound request being handled, if any.
IncomingTraceId == HeaderGet(inbound.headers, "X-Trace-ID")

\* t is the incoming id extended by exactly one generated segment.
ExtendsIncoming(t) ==
    \E s \in SegmentDraws :
        t = IF IsNone(IncomingTraceId) \/ Val(IncomingTraceId) = <<>>
            THEN <<s>>
            ELSE Val(IncomingTraceId) \o <<".", s>>

\* Positions in steps of the entries named n.
StepIndexes(n) == { i \in 1..Len(steps) : steps[i].name = n }

\* C14: inbound binding and end-to-end propagation.  From the moment the
\* handler is invoked, the id bound in the request's chain is the incoming
\* X-Trace-ID extended by one segment; every get_trace_id in the handler
\* returned it, every outbound client request of the handler carries it as
\* X-Trace-ID, and so does the response dispatch returns; with no incoming
\* header it has exactly one segment.
C14_InboundBindingPropagates ==
    mpc # "idle" =>
        /\ ~IsNone(ContextVarGet(trace_id_ctx, Caller))
        /\ LET bound == Val(ContextVarGet(trace_id_ctx, Caller))
           IN /\ ExtendsIncoming(bound)
              /\ ~IsNone(lastRead[Caller]) => Val(lastRead[Caller]) = Some(bound)
              /\ sent # <<>> => SentTraceHeader(bound)
              /\ mpc = "returned" =>
                    /\ "X-Trace-ID" \in DOMAIN outcome.value.headers
                    /\ outcome.value.headers["X-Trace-ID"] = bound
              /\ IsNone(IncomingTraceId) => Len(Split(bound)) = 1

\* A request without X-Trace-ID whose handler read the id, called another
\* service and returned a response.
C14_Witness ==
    /\ mpc = "returned"
    /\ IsNone(IncomingTraceId)
    /\ ~IsNone(lastRead[Caller])
    /\ sent # <<>>
    /\ SentTraceHeader(outcome.value.headers["X-Trace-ID"])
    /\ Len(Split(outcome.value.headers["X-Trace-ID"])) = 1

\* C18: middleware event pairing.  For every inbound request dispatch has
\* written exactly one server request event before it invokes the handler,
\* no response event while the handler runs, and exactly one server response
\* event after the handler has finished, whether it returned or raised.
C18_MiddlewareEventPairing ==
    LET requests == StepIndexes("http.server.request")
        responses == StepIndexes("http.server.response")
        entered == StepIndexes("call_next")
        left == StepIndexes("call_next.returned") \cup StepIndexes("call_next.raised")
    IN /\ mpc # "idle" =>
             /\ Cardinality(requests) = 1
             /\ Cardinality(entered) = 1
             /\ \A i \in requests, j \in entered : i < j
       /\ mpc = "handler" => responses = {} /\ left = {}
       /\ mpc \in {"returned", "raised"} =>
             /\ Cardinality(left) = 1
             /\ Cardinality(responses) = 1
             /\ \A i \in left, j \in responses : i < j

\* The handler raised and dispatch has ended.
C18_Witness ==
    /\ mpc = "raised"
    /\ outcome.exc.type = "ValueError"
    /\ StepIndexes("http.server.request") = {3}
    /\ Cardinality(StepIndexes("http.server.response")) = 1

\* C19: middleware failure path.  When the handler raises, dispatch writes
\* an error event, then a response event with status code 500, and then
\* raises the handler's exception unchanged; it does not return a response.
C19_FailurePath ==
    \A k \in StepIndexes("call_next.raised") :
        Val(steps[k].ghost).kind = "raise" =>
            /\ Len(steps) = k + 2
            /\ steps[k + 1].name = "http.server.error"
            /\ steps[k + 1].error_type = Some(Val(steps[k].ghost).exc.type)
            /\ steps[k + 2].name = "http.server.response"
            /\ steps[k + 2].status_code = Some(500)
            /\ mpc = "raised"
            /\ outcome = Raised(Val(steps[k].ghost).exc)

\* The handler let a ServiceError escape and dispatch raised it.
C19_Witness ==
    /\ mpc = "raised"
    /\ outcome.exc.type = "ServiceError"
    /\ StepIndexes("http.server.error") # {}
    /\ IsNone(frame.response)

\* C20: response header attachment.  Whenever the handler returns a response
\* object, the response dispatch returns carries X-Trace-ID equal to the id
\* bound for this request, which is the incoming id extended by exactly one
\* segment, in place of any X-Trace-ID the handler had set.
C20_ResponseHeaderAttached ==
    \A k \in StepIndexes("call_next.returned") :
        /\ mpc = "returned"
        /\ outcome.kind = "return"
        /\ "X-Trace-ID" \in DOMAIN outcome.value.headers
        /\ Some(outcome.value.headers["X-Trace-ID"]) = lastBound[Caller]
        /\ ExtendsIncoming(outcome.value.headers["X-Trace-ID"])
        /\ outcome.value.status_code = Val(steps[k].ghost).value.status_code

\* The handler had set X-Trace-ID itself on the response it returned.
C20_Witness ==
    /\ mpc = "returned"
    /\ \E k \in StepIndexes("call_next.returned") :
          /\ "X-Trace-ID" \in DOMAIN Val(steps[k].ghost).value.headers
          /\ Val(steps[k].ghost).value.headers["X-Trace-ID"] = <<"HANDLER">>
    /\ outcome.value.headers["X-Trace-ID"] # <<"HANDLER">>

\* The names of the entries of steps, in order.
StepNames == [i \in 1..Len(steps) |-> steps[i].name]

\* Received, ContextBound, request event, HandlerRunning.
PathEntered == <<"dispatch", "set_trace_id", "http.server.request", "call_next">>

\* ... Succeeded, ResponseLogged, HeaderAttached.
PathSucceeded ==
    PathEntered \o <<"call_next.returned", "http.server.response", "header_attached">>

\* ... Failed, error log, ResponseLogged.
PathFailed ==
    PathEntered \o <<"call_next.raised", "http.server.error", "http.server.response">>

\* ... the await cancelled, ResponseLogged.
PathCancelled == PathEntered \o <<"call_next.raised", "http.server.response">>

\* call_next of the current request was left by an exception of the handler.
HandlerFailed ==
    \E k \in StepIndexes("call_next.raised") : Val(steps[k].ghost).kind = "raise"

\* C21 as stated: every request goes through Received, ContextBound,
\* HandlerRunning, then Succeeded or Failed, then ResponseLogged, and ends in
\* HeaderAttached; a request whose handler failed passes an error-log step
\* before ResponseLogged and also reaches HeaderAttached.
C21_StateMachineEndsInHeaderAttached ==
    /\ mpc = "handler" => StepNames = PathEntered
    /\ mpc = "returned" => StepNames = PathSucceeded
    /\ (mpc = "raised" /\ HandlerFailed) => StepNames = PathFailed \o <<"header_attached">>

\* C21 amended: every request goes through Received, ContextBound and
\* HandlerRunning; when the handler returns a response it goes on through
\* Succeeded and ResponseLogged and ends in HeaderAttached; when the handler
\* raises it goes through Failed, an error-log step and ResponseLogged and
\* ends there, dispatch raising without HeaderAttached; when the await is
\* cancelled it goes to ResponseLogged without an error-log step.
C21_StateMachine ==
    /\ mpc = "handler" => StepNames = PathEntered
    /\ mpc = "returned" => StepNames = PathSucceeded
    /\ (mpc = "raised" /\ HandlerFailed) => StepNames = PathFailed
    /\ (mpc = "raised" /\ ~HandlerFailed) => StepNames = PathCancelled

\* A request whose handler raised has ended.
C21_Witness ==
    /\ mpc = "raised"
    /\ HandlerFailed
    /\ outcome.kind = "raise"
    /\ Len(steps) = 7

RegOp(op) == regcall.op = op

\* C23: duplicate registration.  register with a key that is already
\* registered raises the duplicate-key error and leaves the registry
\* unchanged, so get still returns the endpoint registered first.
C23_DuplicateRejected ==
    (RegOp("register") /\ Val(regcall.key) \in DOMAIN regcall.before) =>
        /\ ~regcall.ok
        /\ Val(regcall.exc).msg = "already_registered"
        /\ endpoints = regcall.before
        /\ EndpointRegistry_get(endpoints, Val(regcall.key)).ok
        /\ EndpointRegistry_get(endpoints, Val(regcall.key)).endpoint = regcall.before[Val(regcall.key)]

\* C24: bulk_register is atomic.  If any key of the batch is already
\* registered the call raises and the registry is unchanged; otherwise every
\* key of the batch is registered with its endpoint and the earlier keys keep
\* theirs.
C24_BulkRegisterAtomic ==
    RegOp("bulk_register") =>
        IF DOMAIN regcall.batch \cap DOMAIN regcall.before # {}
        THEN ~regcall.ok /\ endpoints = regcall.before
        ELSE /\ regcall.ok
             /\ DOMAIN endpoints = DOMAIN regcall.before \cup DOMAIN regcall.batch
             /\ \A k \in DOMAIN regcall.batch : endpoints[k] = regcall.batch[k]
             /\ \A k \in DOMAIN regcall.before : endpoints[k] = regcall.before[k]

\* A batch of two keys, one of them registered before, was refused.
C24_Witness ==
    /\ RegOp("bulk_register")
    /\ ~regcall.ok
    /\ Cardinality(DOMAIN regcall.batch) = 2
    /\ Cardinality(DOMAIN regcall.batch \cap DOMAIN regcall.before) = 1

\* C25: get returns the endpoint registered under the key; for a key that is
\* not registered it raises the not-found error whose message names exactly
\* the registered keys, 'none' when the registry is empty; the registry is
\* unchanged either way.
C25_GetOrNotFound ==
    RegOp("get") =>
        /\ endpoints = regcall.before
        /\ IF Val(regcall.key) \in DOMAIN regcall.before
           THEN regcall.ok /\ regcall.value = Some(regcall.before[Val(regcall.key)])
           ELSE /\ ~regcall.ok
                /\ Val(regcall.exc).type = "KeyError"
                /\ Val(regcall.available).none = (DOMAIN regcall.before = {})
                /\ Val(regcall.available).keys = DOMAIN regcall.before

\* The last call was get_base_url.
Resolving == svccall.op = "get_base_url"

\* C26: resolve once, reuse.  Once get_base_url(s) has returned a URL, every
\* later get_base_url(s) returns that URL, whatever was done to the settings
\* object in between, until clear_cache.
C26_ResolveOnceReuse ==
    (Resolving /\ svccall.service_name \in DOMAIN resolved) =>
        svccall.ok /\ svccall.url = resolved[svccall.service_name]

\* A name resolved earlier is resolved again after its settings field was
\* given another value, and after the field was deleted.
C26_Witness ==
    /\ Resolving /\ ~svccall.first /\ svccall.ok
    /\ svccall.field_name \in DOMAIN settings
    /\ settings[svccall.field_name] # svccall.url

\* C27: cache invalidation.  The first get_base_url(s) after clear_cache
\* returns the value the settings object holds for s at that moment, for every
\* name s, also one that had been resolved before the clear.
C27_ClearThenFresh ==
    (Resolving /\ svccall.first /\ svccall.field_name \in DOMAIN settings) =>
        svccall.ok /\ svccall.url = settings[svccall.field_name]

\* The call follows clear_cache, and the clear dropped another URL for the name.
C27_Witness ==
    /\ Resolving /\ svccall.first /\ svccall.ok
    /\ svccall.service_name \in DOMAIN svccall.dropped
    /\ svccall.dropped[svccall.service_name] # svccall.url

\* C28: case-insensitive service names.  In every reachable state the URLs
\* get_base_url returns for two names that differ only in letter case are
\* equal.
C28_CaseInsensitive ==
    \A a \in DOMAIN resolved, b \in DOMAIN resolved :
        Lower(a) = Lower(b) => resolved[a] = resolved[b]

\* C29 as stated: get_base_url for a name whose settings field does not exist
\* raises the not-configured error naming the available services and adds no
\* cache entry.
C29_UnknownServiceRaises ==
    (Resolving /\ svccall.field_name \notin DOMAIN settings) =>
        /\ ~svccall.ok
        /\ Val(svccall.available) = AvailableOrNone(list_services(settings))
        /\ cache = svccall.before

\* C29: unknown service.  get_base_url for a name that has no settings field
\* and no cache entry raises the not-configured error naming the services
\* that have a field and adds no cache entry, so the call for that name
\* returns the field's value once the field exists; a name resolved before
\* its field was deleted keeps returning the cached URL.
C29_UnknownServiceNotCached ==
    (Resolving /\ svccall.field_name \notin DOMAIN settings) =>
        IF svccall.service_name \in DOMAIN svccall.before
        THEN svccall.ok /\ svccall.url = svccall.before[svccall.service_name] /\ cache = svccall.before
        ELSE /\ ~svccall.ok
             /\ Val(svccall.available) = AvailableOrNone(list_services(settings))
             /\ cache = svccall.before
             /\ \A u \in Urls :
                   LET later == get_base_url(cache, DictSet(settings, svccall.field_name, u),
                                             svccall.service_name)
                   IN later.ok /\ later.url = u

\* The call for a name without field and cache entry failed while another
\* service is configured.
C29_Witness ==
    /\ Resolving /\ ~svccall.ok
    /\ svccall.field_name \notin DOMAIN settings
    /\ ~Val(svccall.available).none

\* The path template with every placeholder whose key is in the map replaced
\* by the map's value, in one pass from left to right; the values put in are
\* not looked at again.
RECURSIVE SubstitutedOnce(_, _)
SubstitutedOnce(path, items) ==
    IF path = <<>> THEN <<>>
    ELSE LET hits == { n \in 1..Len(items) : StartsWith(path, Placeholder(items[n][1])) } IN
         IF hits = {}
         THEN <<Head(path)>> \o SubstitutedOnce(Tail(path), items)
         ELSE LET n == CHOOSE m \in hits : TRUE
              IN items[n][2] \o
                 SubstitutedOnce(SubSeq(path, Len(Placeholder(items[n][1])) + 1, Len(path)), items)

\* The items of a path-parameter map (none for None).
ItemsOf(path_params) == IF IsNone(path_params) THEN <<>> ELSE Val(path_params)

\* C30: _build_url returns exactly base URL + path in which each placeholder
\* {k} with k in the map is replaced by the map's value for k, and every
\* other part of the path, text introduced by a substituted value included,
\* is left untouched.
C30_BuildUrlSubstitutesOnce ==
    (urlcall.op = "_build_url" /\ urlcall.ok) =>
        urlcall.url = urlcall.base_url \o
                      SubstitutedOnce(urlcall.endpoint.path, ItemsOf(urlcall.path_params))

\* Keys of the current call's path parameters whose placeholder occurs neither
\* in the endpoint's path nor in a value of the map.
KeysWithoutPlaceholder ==
    LET items == ItemsOf(call.path_params) IN
    { items[n][1] : n \in { m \in 1..Len(items) :
        /\ ~Contains(endpoints[call.endpoint_key].path, Placeholder(items[m][1]))
        /\ \A l \in 1..Len(items) : ~Contains(items[l][2], Placeholder(items[m][1])) } }

\* The URL built for the current call still holds a placeholder.
PlaceholderLeft ==
    /\ ~IsNone(call.locals.url)
    /\ \E k \in UrlKeys : Contains(Val(call.locals.url), Placeholder(k))

\* The current call's log holds a warning with message m about detail d.
Warned(m, d) == \E i \in LogIndexes(m) : log[i].level = "WARNING" /\ log[i].detail = d

DeclaredMethod == endpoints[call.endpoint_key].method

\* C32 as stated: for every endpoint the registry can hold and whichever entry
\* point is used, the client performs exactly one transport call, whose HTTP
\* method is the endpoint's declared method.
C32_EveryMethodDispatched ==
    (InCall /\ PreChecksPass) =>
        Len(sent) = 1 /\ sent[1].method = DeclaredMethod

\* C32: dispatch by declared method.  Whichever entry point is used, a call to
\* an endpoint declared GET, POST, PUT, DELETE or PATCH performs exactly one
\* transport call, with the declared method; a call to an endpoint declared
\* HEAD or OPTIONS performs none and raises ServiceError.
C32_DispatchByDeclaredMethod ==
    (InCall /\ PreChecksPass) =>
        IF DeclaredMethod \in {"GET", "POST", "PUT", "DELETE", "PATCH"}
        THEN Len(sent) = 1 /\ sent[1].method = DeclaredMethod
        ELSE sent = <<>> /\ RaisedType("ServiceError")

\* A POST endpoint called without a body (through request, get or delete) is
\* sent as POST.
C32_Witness ==
    /\ pc = "awaiting"
    /\ DeclaredMethod = "POST"
    /\ IsNone(call.body)
    /\ Len(sent) = 1
    /\ sent[1].method = "POST"

\* dispatch has finished handling the current request.
DispatchFinished == mpc \in {"returned", "raised"}

\* C33: scope exit.  After dispatch has finished handling a request (handler
\* returned or raised), the trace id it bound is discarded: get_trace_id in
\* that execution context no longer returns this request's id.
C33_DiscardedAfterDispatch ==
    DispatchFinished => ContextVarGet(trace_id_ctx, Caller) # frame.trace_id

\* C34: log correlation under concurrency.  Every record that passed
\* ContextFilter.filter carries the trace id bound in the emitting chain at
\* emit time, None when none was bound, in every interleaving of chains that
\* bind, clear and log; no record carries the id of another chain.
C34_LogCorrelation ==
    \A i \in 1..Len(emitted) : emitted[i].fields.trace_id = emitted[i].bound

\* Two chains with different ids bound logged one after the other.
C34_Witness ==
    /\ Len(emitted) = 2
    /\ emitted[1].chain # emitted[2].chain
    /\ ~IsNone(emitted[1].bound) /\ ~IsNone(emitted[2].bound)
    /\ emitted[1].fields.trace_id # emitted[2].fields.trace_id

\* The transport call of the current call raised an exception that is neither
\* a timeout nor an HTTP status error.
ReplyOtherFailure ==
    /\ ~IsNone(reply)
    /\ Val(reply).kind = "exception"
    /\ ~IsSubclass(Val(reply).type, "httpx.TimeoutException")
    /\ ~IsSubclass(Val(reply).type, "httpx.HTTPStatusError")

\* C35: transport failure classification.  An exception raised by the
\* transport call that is neither a timeout nor an HTTP status error reaches
\* the caller as the generic ServiceError, without status code, whose cause
\* is the underlying exception.
C35_OtherFailureGeneric ==
    (CallEnded /\ ReplyOtherFailure) =>
        /\ RaisedType("ServiceError")
        /\ IsNone(result.exc.status_code)
        /\ result.exc.cause = Val(reply).type

\* The transport could not connect and the caller got ServiceError caused by
\* the connection error.
C35_Witness ==
    /\ pc = "raised"
    /\ ReplyOtherFailure
    /\ Val(reply).type = "httpx.ConnectError"
    /\ result.exc.type = "ServiceError"
    /\ result.exc.cause = "httpx.ConnectError"

\* The transport answered the current call with a 2xx response.
ReplySuccess ==
    /\ ~IsNone(reply)
    /\ Val(reply).kind = "response"
    /\ IsSuccess(Val(reply).status_code)

\* C36 as stated: response event only on success.  A call that ended by
\* raising an error has emitted no response event.
C36_ResponseEventOnlyOnReturn ==
    pc = "raised" => LogIndexes("http.client.response") = {}

\* C36: response event on a 2xx reply.  A call that ended has emitted the
\* response event, once, exactly when the transport answered with a 2xx
\* status; every call that returns has emitted it, and a call that raised
\* has emitted it only when the failure came after the 2xx reply, in
\* parsing or validating the body.
C36_ResponseEventOnSuccessReply ==
    CallEnded =>
        /\ Cardinality(LogIndexes("http.client.response")) = (IF ReplySuccess THEN 1 ELSE 0)
        /\ pc = "returned" => ReplySuccess

\* A 200 reply whose body does not fit the response model: the call raised
\* after emitting the response event.
C36_Witness ==
    /\ pc = "raised"
    /\ ReplyStatus(200)
    /\ Val(reply).content = "obj_bad"
    /\ LogIndexes("http.client.response") # {}
    /\ LogIndexes("response_validation_error") # {}

\* What the readers has, list_keys and get report for key k on registry eps:
\* the endpoint all three agree on, None when all three report absence, and
\* "disagree" when they differ.
Reported(eps, k) ==
    LET got == EndpointRegistry_get(eps, k) IN
    IF has(eps, k) /\ k \in list_keys(eps) /\ got.ok THEN Some(got.endpoint)
    ELSE IF ~has(eps, k) /\ k \notin list_keys(eps) /\ ~got.ok THEN None
    ELSE <<"disagree">>

\* The endpoint the last call stored under k when it succeeded as a
\* registration of k, None otherwise.
StoredByCall(k) ==
    IF RegOp("register") /\ regcall.ok /\ regcall.key = Some(k) THEN regcall.value
    ELSE IF RegOp("bulk_register") /\ regcall.ok /\ k \in DOMAIN regcall.batch
    THEN Some(regcall.batch[k])
    ELSE None

\* The last call was unregister(k) of a present key, or clear.
RemovedByCall(k) ==
    \/ RegOp("unregister") /\ regcall.key = Some(k) /\ k \in DOMAIN regcall.before
    \/ RegOp("clear")

\* C37: registry contents.  After every call, has, list_keys and get agree
\* on every key, and what they report for k is: the endpoint the call stored
\* when it was a successful registration of k; nothing when the call was
\* unregister(k) or clear; and otherwise what was reported before the call.
\* So k is present with e exactly when the last successful registration of k
\* stored e and no unregister(k) or clear followed.  unregister(k) leaves
\* every other key as it was, and unregister of an absent key raises KeyError
\* and changes nothing.
C37_RegistryContents ==
    ~RegOp("none") =>
        /\ \A k \in RegKeys :
              Reported(endpoints, k) =
                  IF ~IsNone(StoredByCall(k)) THEN StoredByCall(k)
                  ELSE IF RemovedByCall(k) THEN None
                  ELSE Reported(regcall.before, k)
        /\ (RegOp("unregister") /\ Val(regcall.key) \notin DOMAIN regcall.before) =>
              /\ ~regcall.ok
              /\ Val(regcall.exc).type = "KeyError"
              /\ endpoints = regcall.before

\* unregister removed one of two registered keys and the other is still
\* reported with its endpoint.
C37_Witness ==
    /\ RegOp("unregister")
    /\ regcall.ok
    /\ Cardinality(DOMAIN regcall.before) = 2
    /\ \E k \in RegKeys : k # Val(regcall.key) /\ Reported(endpoints, k) = Some(regcall.before[k])

\* C38: no empty key.  The registry never holds the empty string as a key.
C38_NoEmptyKey == ~has(endpoints, "")

\* Thread t has finished a call that registers key k and that began while k
\* was not registered.
RegisteredFresh(t, k) ==
    /\ regthreads[t].at = "done"
    /\ \/ regthreads[t].op = "register" /\ regthreads[t].key = k
       \/ regthreads[t].op = "bulk_register" /\ k \in DOMAIN regthreads[t].batch
    /\ k \notin DOMAIN regthreads[t].before

\* C39: concurrent registration.  When two threads have each finished a call
\* of register or bulk_register with the same non-empty key, both begun while
\* the key was not registered, exactly one of the calls succeeded and the
\* other raised the duplicate-key error.
C39_ConcurrentRegistration ==
    \A k \in ThreadKeys :
        (RegisteredFresh("T1", k) /\ RegisteredFresh("T2", k)) =>
            \E t \in Threads, u \in Threads :
                /\ t # u
                /\ regthreads[t].ok
                /\ ~regthreads[u].ok
                /\ regthreads[u].exc = "already_registered"

\* C40: frame of request.  Every step of a ServiceClient.request call (its
\* entry up to the transport call or an early raise, its resumption up to
\* the return or the raise, the handing over of the outcome) leaves the
\* calling chain's trace-id binding, every other chain's binding and the
\* contents of the EndpointRegistry as they were, and likewise the settings
\* and the client's configuration; only the ServiceRegistry's cache of
\* resolved URLs may differ.
C40_RequestFrame ==
    [][ pc' # pc =>
          /\ trace_id_ctx' = trace_id_ctx
          /\ lastBound' = lastBound
          /\ endpoints' = endpoints
          /\ settings' = settings
          /\ max_retries' = max_retries ]_vars

\* A call made with a trace id bound has ended after its transport call,
\* with the service's URL cached, the id still bound and the registry as at
\* startup.
C40_Witness ==
    /\ CallEnded
    /\ ~IsNone(reply)
    /\ cache # << >>
    /\ trace_id_ctx[Caller] = Some(<<"AAA11", ".", "BBB22">>)
    /\ endpoints = StartupEndpoints

====
